---- MODULE Spec2Model ----
(***************************************************************************)
(* gitlab-users: CSV-driven creation and deletion of GitLab users.         *)
(*                                                                         *)
(* Three generations of the tool coexist in the repository:                *)
(*   "cli"    src/src/gitlab_users/cli.py + services.py   (sub-commands)   *)
(*   "legacy" src/src/gitlab_users/gitlab_users.py        (flags, -n)      *)
(*   "old"    src/gitlab_users/gitlab_users.py            (flags, no -n)   *)
(* One invocation of one of them is one behaviour of the model.  The       *)
(* remote directory is a set of users with unique usernames and a fixed    *)
(* set of groups.  Every remote mutation request, every console line and   *)
(* every line read from the operator is appended to `log`, in order.       *)
(*                                                                         *)
(* User names, e-mails and group names are only compared for equality and  *)
(* are TLA+ strings.  Texts the code transforms (access levels, answers to *)
(* the prompt) are sequences of one-character strings.                     *)
(***************************************************************************)
EXTENDS Integers, Sequences, FiniteSets, TLC

\* Longest input file (records for creation, usernames for deletion).
MaxRecords == 2
\* Most lines the operator types during one invocation.
MaxInputs == 3
\* Lines of a CSV file.
MaxLines == 3
\* Users in the listing an activity report is made of.
MaxListed == 2

\* Python's None for a field compared by equality.
None == "<None>"
\* Python's None for a field that is a character sequence.
NoneText == <<None>>

----------------------------------------------------------------------------
(* str.lower(), str.upper(), str.strip()                                   *)

LowerChars == <<"a","b","c","d","e","f","g","h","i","j","k","l","m",
                "n","o","p","q","r","s","t","u","v","w","x","y","z">>
UpperChars == <<"A","B","C","D","E","F","G","H","I","J","K","L","M",
                "N","O","P","Q","R","S","T","U","V","W","X","Y","Z">>

LowerChar(c) ==
    IF \E i \in 1..Len(UpperChars) : UpperChars[i] = c
    THEN LowerChars[CHOOSE i \in 1..Len(UpperChars) : UpperChars[i] = c]
    ELSE c

UpperChar(c) ==
    IF \E i \in 1..Len(LowerChars) : LowerChars[i] = c
    THEN UpperChars[CHOOSE i \in 1..Len(LowerChars) : LowerChars[i] = c]
    ELSE c

lower(s) == [i \in 1..Len(s) |-> LowerChar(s[i])]
upper(s) == [i \in 1..Len(s) |-> UpperChar(s[i])]

Whitespace == {" ", "\t", "\n"}

RECURSIVE lstrip(_)
lstrip(s) ==
    IF s # <<>> /\ Head(s) \in Whitespace THEN lstrip(Tail(s)) ELSE s

RECURSIVE rstrip(_)
rstrip(s) ==
    IF s # <<>> /\ s[Len(s)] \in Whitespace
    THEN rstrip(SubSeq(s, 1, Len(s) - 1))
    ELSE s

strip(s) == rstrip(lstrip(s))

\* Python truth value of an optional string / optional character sequence.
Truthy(s) == s # None /\ s # ""
TruthyText(t) == t # NoneText /\ t # <<>>

----------------------------------------------------------------------------
(* Access levels                                                           *)

guest      == <<"g","u","e","s","t">>
reporter   == <<"r","e","p","o","r","t","e","r">>
developer  == <<"d","e","v","e","l","o","p","e","r">>
maintainer == <<"m","a","i","n","t","a","i","n","e","r">>
master     == <<"m","a","s","t","e","r">>
owner      == <<"o","w","n","e","r">>
minimal_access == <<"m","i","n","i","m","a","l","_","a","c","c","e","s","s">>

bogus == <<"b","o","g","u","s">>

\* gitlab_users.ACCESS_LEVEL: key -> gitlab.const.AccessLevel value.
ACCESS_LEVEL ==
    [k \in {guest, reporter, developer, master, maintainer, owner} |->
        CASE k = guest      -> 10
          [] k = reporter   -> 20
          [] k = developer  -> 30
          [] k = master     -> 40
          [] k = maintainer -> 40
          [] k = owner      -> 50]

\* cli.AccessLevel: attribute name -> value.
AccessLevel ==
    [k \in {upper(minimal_access), upper(guest), upper(reporter),
            upper(developer), upper(maintainer), upper(owner)} |->
        CASE k = upper(minimal_access) -> 5
          [] k = upper(guest)          -> 10
          [] k = upper(reporter)       -> 20
          [] k = upper(developer)      -> 30
          [] k = upper(maintainer)     -> 40
          [] k = upper(owner)          -> 50]

\* getattr with a default that is a level instead of None.
getattr_AccessLevel_default_level(name) ==
    IF name \in DOMAIN AccessLevel THEN AccessLevel[name] ELSE 30

\* getattr(AccessLevel, name, None); 0 stands for None (both are falsy).
getattr_AccessLevel(name) ==
    IF name \in DOMAIN AccessLevel THEN AccessLevel[name] ELSE 0

----------------------------------------------------------------------------
(* query_yes_no's table of valid answers                                   *)

valid ==
    [a \in {<<"y","e","s">>, <<"y">>, <<"y","e">>, <<"n","o">>, <<"n">>} |->
        a \in {<<"y","e","s">>, <<"y">>, <<"y","e">>}]

\* query_yes_no taking every answer it does not know as the default.
query_yes_no_once(line, default) ==
    LET choice == lower(line) IN
    IF choice \in DOMAIN valid
    THEN (IF valid[choice] THEN "yes" ELSE "no")
    ELSE (IF valid[default] THEN "yes" ELSE "no")

\* query_yes_no returning the negation of the table's entry.
query_yes_no_negated(line, default) ==
    LET choice == lower(line) IN
    IF TruthyText(default) /\ choice = <<>>
    THEN (IF valid[default] THEN "yes" ELSE "no")
    ELSE IF choice \in DOMAIN valid
         THEN (IF valid[choice] THEN "no" ELSE "yes")
         ELSE "again"

\* One pass of query_yes_no's loop body on the line read (default = "no"):
\* "yes" / "no" when the function returns, "again" when it prompts again.
query_yes_no(line, default) ==
    LET choice == lower(line) IN
    IF TruthyText(default) /\ choice = <<>>
    THEN (IF valid[default] THEN "yes" ELSE "no")
    ELSE IF choice \in DOMAIN valid
         THEN (IF valid[choice] THEN "yes" ELSE "no")
         ELSE "again"

----------------------------------------------------------------------------
(* Inputs                                                                  *)

\* The remote directory when the invocation starts.
InitUsers ==
    { [id |-> 11, username |-> "bob",   email |-> "bob@example.com",
       name |-> "Bob"],
      [id |-> 12, username |-> "alice", email |-> "alice@example.com",
       name |-> "Alice"] }

\* The remote groups (never changed by the tool).
InitGroups == {"devs"}

\* Usernames a deletion file or the delete argument may hold.
DeleteNames == {"bob", "alice", "ghost"}

\* Lines the operator may type at a confirmation prompt.
Answers ==
    { <<"y">>, <<"Y","E","S">>, <<"Y","e">>, <<"n">>, <<"N","o">>, <<>>,
      <<"x">>, <<" ","y"," ">> }

\* username / name / e-mail of a creation row: all unused, or exactly one
\* of them already used in the directory.
Identities ==
    { <<"carol", "Carol", "carol@example.com">>,
      <<"bob",   "Robert", "rob@example.com">>,
      <<"dave",  "Bob",   "dave@example.com">>,
      <<"erin",  "Erin",  "bob@example.com">> }

\* group / access_level columns of a creation row.
Memberships ==
    { <<None, NoneText>>, <<"devs", developer>>, <<"devs", bogus>>,
      <<"ghost", developer>>, <<"ghost", bogus>>, <<"devs", NoneText>>,
      <<"devs", master>>, <<"devs", upper(developer)>> }

\* Parsed creation rows (utils.get_users_from_csv yields all seven keys).
UserDicts ==
    { [username |-> i[1], name |-> i[2], email |-> i[3],
       organization |-> None, location |-> None,
       group |-> m[1], access_level |-> m[2]] :
      i \in Identities, m \in Memberships }

SeqsUpTo(S, n) == UNION { [1..k -> S] : k \in 0..n }

----------------------------------------------------------------------------
(* State                                                                   *)

VARIABLES
    impl,       \* which generation of the tool runs
    command,    \* "create" | "delete_from" | "delete"
    dry_run,    \* args.dry_run
    users,      \* rows of the creation CSV (get_users_from_csv)
    usernames,  \* usernames to delete (get_usernames_from_csv / argument)
    pos,        \* index of the next element of the file
    pc,         \* "run" | "query" | "done" | "exit" | "raised"
    gl_user,    \* id of OldUser.gl_user while the prompt is open, else 0
    gl_users,   \* remote directory: the users
    members,    \* remote directory: group memberships
    next_id,    \* id the directory gives the next created user
    log,        \* requests, console lines and operator input, in order
    csvfile,    \* lines of the CSV file a loader reads
    loaded,     \* what the loader returned
    all_gl_users,   \* GLUsers.all_gl_users, the listing a report is made of
    now,        \* datetime.now() when the report is made: <<day, hour>>
    buckets,    \* what the activity classification returned
    written,    \* text of the file export_users_to_csv wrote
    reread,     \* rows csv.reader gives for the written file
    found,      \* what GitLabService.get_user_by_username returned or raised
    fault       \* the remote call that fails during the invocation, if any

vars == <<impl, command, dry_run, users, usernames, pos, pc, gl_user,
          gl_users, members, next_id, log, csvfile, loaded,
          all_gl_users, now, buckets, written, reread, found, fault>>

\* What the commands that change the directory leave alone.
local == <<csvfile, loaded, all_gl_users, now, buckets, written, reread, found, fault>>

params == <<impl, command, dry_run, users, usernames, fault>>

\* Log entries.
Request(op, rec, user, id, group, level) ==
    [kind |-> "request", op |-> op, rec |-> rec, user |-> user, id |-> id,
     group |-> group, level |-> level, line |-> <<>>, error |-> ""]
\* A create request that never asks for the password reset.
CreateRequest_without_reset(rec, user, reset_password) ==
    [kind |-> "request", op |-> "create", rec |-> rec, user |-> user,
     id |-> 0, group |-> None, level |-> 0, line |-> <<>>, error |-> ""]

\* gl.users.create(data): the request carries data["reset_password"].
CreateRequest(rec, user, reset_password) ==
    [kind |-> "request", op |-> "create", rec |-> rec, user |-> user,
     id |-> 0, group |-> None,
     level |-> (IF reset_password THEN 1 ELSE 0), line |-> <<>>,
     error |-> ""]
Say(msg, rec, user) ==
    [kind |-> "print", op |-> msg, rec |-> rec, user |-> user, id |-> 0,
     group |-> None, level |-> 0, line |-> <<>>, error |-> ""]
Input(rec, user, line) ==
    [kind |-> "input", op |-> "input", rec |-> rec, user |-> user, id |-> 0,
     group |-> None, level |-> 0, line |-> line, error |-> ""]
\* The exception a remote call raised, at the call site it was raised.
Raised(site, rec, user, error) ==
    [kind |-> "raise", op |-> site, rec |-> rec, user |-> user, id |-> 0,
     group |-> None, level |-> 0, line |-> <<>>, error |-> error]

InputCount == Cardinality({i \in 1..Len(log) : log[i].kind = "input"})

\* No loader has returned yet.
NotLoaded ==
    [fn |-> "", raised |-> "", newusers |-> <<>>, usernames |-> <<>>]

\* No classification has been made yet.
NoBuckets ==
    [raised |-> "", old_sign_in |-> <<>>, never_sign_in |-> <<>>,
     already_sign_in |-> <<>>, active |-> <<>>]

\* The invocation reads no CSV file / makes no activity report.
NoFile == csvfile = <<>> /\ loaded = NotLoaded
NoReport == all_gl_users = <<>> /\ now = <<0, 0>> /\ buckets = NoBuckets
NoExport == written = <<>> /\ reread = <<>>
NoUser == [id |-> 0, username |-> "", email |-> "", name |-> "", state |-> ""]
NotLookedUp == [raised |-> "", message |-> <<>>, user |-> NoUser]
NoLookup == found = NotLookedUp
\* Every remote call is answered.
NoFault == [site |-> "none", rec |-> 0, error |-> ""]

Init ==
    /\ impl \in {"cli", "legacy", "old"}
    /\ command \in {"create", "delete_from", "delete"}
    /\ dry_run \in BOOLEAN
    /\ impl = "old" => (~dry_run /\ command # "create")
    /\ users \in SeqsUpTo(UserDicts, MaxRecords)
    /\ usernames \in SeqsUpTo(DeleteNames, MaxRecords)
    /\ command = "create" => usernames = <<>>
    /\ command # "create" => users = <<>>
    /\ command = "delete" => Len(usernames) = 1
    /\ pos = 1
    /\ pc = "run"
    /\ gl_user = 0
    /\ gl_users = InitUsers
    /\ members = {}
    /\ next_id = 21
    /\ log = <<>>
    /\ NoFile
    /\ NoReport
    /\ NoExport
    /\ NoLookup
    /\ fault = NoFault

----------------------------------------------------------------------------
(* Remote directory (python-gitlab calls)                                  *)

\* The listing without its username filter.
users_list_unfiltered(username) == gl_users

\* gl.users.list(username=...)
users_list(username) == {u \in gl_users : u.username = username}

\* gl.users.delete(id) / gl_user.delete()
users_delete(id) == {u \in gl_users : u.id # id}

\* The lookup taking the first user of the unfiltered listing.
get_user_by_username_unfiltered(username) ==
    IF users_list(username) = {}
    THEN [raised |-> "ValueError", id |-> 0, username |-> username]
    ELSE LET u == CHOOSE u \in gl_users : u.username # username IN
         [raised |-> "", id |-> u.id, username |-> u.username]

\* services.GitLabService.get_user_by_username: the first user listed, or
\* ValueError when the listing is empty.
get_user_by_username(username) ==
    IF users_list(username) = {}
    THEN [raised |-> "ValueError", id |-> 0, username |-> username]
    ELSE LET u == CHOOSE u \in users_list(username) : TRUE IN
         [raised |-> "", id |-> u.id, username |-> u.username]

\* gl.users.create(data): the directory keeps usernames unique and requires
\* one; it answers a request it refuses with GitlabCreateError.
users_create_ok(username) == Truthy(username) /\ users_list(username) = {}

\* A directory storing the created user without its username.
users_create_nameless(userdict) ==
    [id |-> next_id, username |-> "", email |-> userdict.email,
     name |-> userdict.name]

\* The user the directory stores for an accepted create request.
users_create(userdict) ==
    [id |-> next_id, username |-> userdict.username,
     email |-> userdict.email, name |-> userdict.name]

\* The group lookup with its result inverted.
groups_get_ok_inverted(name) == name \notin InitGroups

\* gl.groups.get(name) succeeds only for a group of the directory.
groups_get_ok(name) == name \in InitGroups

\* utils.get_user_data: the value under the key, ValueError without the key.
get_user_data_ok(user, dataname) == dataname \in DOMAIN user
get_user_data(user, dataname) == user[dataname]

----------------------------------------------------------------------------
(* Creation                                                                *)

\* The remote call at this call site fails while the element at pos is
\* being processed.
fails(site) == fault.site = site /\ fault.rec = pos

\* A handler catching the errors of the remote service only.
except_GitlabError(error) == error = "GitlabError"

\* cli.main's handler around the membership step: `except Exception`.
except_Exception(error) == TRUE

\* cli.main, one pass of the create-from-csv loop.
CliCreateFromCsv ==
    /\ impl = "cli" /\ command = "create" /\ pc = "run"
    /\ pos <= Len(users)
    /\ LET user == users[pos] IN
       IF ~ (\A k \in {"username", "email", "name"} : get_user_data_ok(user, k))
       THEN /\ pc' = "raised"
            /\ UNCHANGED <<pos, gl_users, members, next_id, log>>
       ELSE
       LET username == get_user_data(user, "username")
           group == user.group
           access_level == user.access_level
           u == users_create(user)
           level == getattr_AccessLevel(upper(access_level))
       IN
       IF dry_run
       THEN /\ log' = Append(log, Say("dry_run_create", pos, username))
            /\ pos' = pos + 1
            /\ UNCHANGED <<pc, gl_users, members, next_id>>
       ELSE IF fails("users_create")
       THEN /\ log' = log \o << CreateRequest(pos, username, TRUE),
                                Raised("users_create", pos, username,
                                       fault.error) >>
            /\ pc' = "raised"
            /\ UNCHANGED <<pos, gl_users, members, next_id>>
       ELSE IF ~ users_create_ok(username)
       THEN /\ log' = Append(log, CreateRequest(pos, username, TRUE))
            /\ pc' = "raised"
            /\ UNCHANGED <<pos, gl_users, members, next_id>>
       ELSE IF /\ Truthy(group) /\ TruthyText(access_level)
               /\ \/ fails("groups_get")
                  \/ groups_get_ok(group) /\ level # 0
                     /\ fails("members_create")
       THEN \* the membership step raises inside the try block
         /\ gl_users' = gl_users \cup {u}
         /\ next_id' = next_id + 1
         /\ members' = members
         /\ LET tried == log \o
                    << CreateRequest(pos, username, TRUE),
                       Say("created", pos, username) >> \o
                    (IF fails("groups_get") THEN <<>>
                     ELSE << Request("member_add", pos, username, u.id,
                                     group, level) >>) \o
                    << Raised(fault.site, pos, username, fault.error) >>
            IN IF except_Exception(fault.error)
               THEN /\ log' = Append(tried, Say("could_not_add_to_group",
                                                pos, username))
                    /\ pos' = pos + 1
                    /\ pc' = pc
               ELSE /\ log' = tried
                    /\ pos' = pos
                    /\ pc' = "raised"
       ELSE
         /\ gl_users' = gl_users \cup {u}
         /\ next_id' = next_id + 1
         /\ pos' = pos + 1
         /\ pc' = pc
         /\ IF ~ (Truthy(group) /\ TruthyText(access_level))
            THEN /\ log' = log \o << CreateRequest(pos, username, TRUE),
                                     Say("created", pos, username) >>
                 /\ members' = members
            ELSE IF ~ groups_get_ok(group)
            THEN /\ log' = log \o << CreateRequest(pos, username, TRUE),
                                     Say("created", pos, username),
                                     Say("could_not_add_to_group", pos, username) >>
                 /\ members' = members
            ELSE IF level = 0
            THEN /\ log' = log \o << CreateRequest(pos, username, TRUE),
                                     Say("created", pos, username),
                                     Say("unknown_access_level", pos, username) >>
                 /\ members' = members
            ELSE /\ log' = log \o << CreateRequest(pos, username, TRUE),
                                     Say("created", pos, username),
                                     Request("member_add", pos, username, u.id,
                                             group, level),
                                     Say("added_to_group", pos, username) >>
                 /\ members' = members \cup
                       {[group |-> group, user_id |-> u.id,
                         access_level |-> level]}
    /\ UNCHANGED <<params, local, gl_user>>

\* The access-level validation skipped in a dry run.
NewUser_wrong_access_level_unless_dry(userdict) ==
    /\ ~ dry_run
    /\ Truthy(userdict.group)
    /\ userdict.access_level \notin DOMAIN ACCESS_LEVEL

\* NewUser.__init__: a record with a group and an access level that is not
\* a key of ACCESS_LEVEL makes the script exit.
NewUser_wrong_access_level(userdict) ==
    /\ Truthy(userdict.group)
    /\ userdict.access_level \notin DOMAIN ACCESS_LEVEL

\* NewUser.save: the user is created when the checks pass and the run is
\* not a dry run.
NewUser_save_creates_nodry(checkok, dry) == checkok
NewUser_save_creates(checkok, dry) == checkok /\ ~ dry

\* NewUser._check: the console lines of the failed checks, in order.
NewUser_check_lines(userdict, group, rec) ==
    (IF \E g \in gl_users : g.username = userdict.username
     THEN << Say("username_already_used", rec, userdict.username) >> ELSE <<>>)
    \o
    (IF \E g \in gl_users : g.email = userdict.email
     THEN << Say("email_already_used", rec, userdict.username) >> ELSE <<>>)
    \o
    (IF \E g \in gl_users : g.name = userdict.name
     THEN << Say("name_already_used", rec, userdict.username) >> ELSE <<>>)
    \o
    (IF group # None /\ ~ groups_get_ok(group)
     THEN << Say("group_does_not_exist", rec, userdict.username) >> ELSE <<>>)

\* The checks without the one on the group.
NewUser_check_without_group(userdict, group) ==
    /\ ~ \E g \in gl_users : g.username = userdict.username
    /\ ~ \E g \in gl_users : g.email = userdict.email
    /\ ~ \E g \in gl_users : g.name = userdict.name

\* NewUser._check's result.
NewUser_check(userdict, group) ==
    /\ ~ \E g \in gl_users : g.username = userdict.username
    /\ ~ \E g \in gl_users : g.email = userdict.email
    /\ ~ \E g \in gl_users : g.name = userdict.name
    /\ group # None => groups_get_ok(group)

\* Legacy main, one pass of the --create-from loop: NewUser(userdict,
\* dry_run) followed by NewUser.save().
NewUser_save ==
    /\ impl = "legacy" /\ command = "create" /\ pc = "run"
    /\ pos <= Len(users)
    /\ LET userdict == users[pos]
           username == userdict.username
           raise(lines) ==
               /\ log' = log \o lines \o
                     << Raised(fault.site, pos, username, fault.error) >>
               /\ pc' = "raised"
               /\ UNCHANGED <<pos, members>>
       IN
       IF fails("users_list")
       THEN \* __init__: self.gl.users.list(all=True)
            raise(<<>>) /\ UNCHANGED <<gl_users, next_id>>
       ELSE IF NewUser_wrong_access_level(userdict)
       THEN \* __init__: sys.exit("Wrong access level ...")
            /\ log' = Append(log, Say("wrong_access_level", pos, username))
            /\ pc' = "exit"
            /\ UNCHANGED <<pos, gl_users, members, next_id>>
       ELSE
       LET group == IF Truthy(userdict.group) THEN userdict.group ELSE None
           checking == << Say("checking", pos, username) >>
                       \o NewUser_check_lines(userdict, group, pos)
           u == users_create(userdict)
           creating == checking \o << Say("check_ok", pos, username),
                                      CreateRequest(pos, username, TRUE) >>
           created == creating \o
                      << Request("save", pos, username, u.id, None, 0),
                         Say("created", pos, username) >>
           member_add == Request("member_add", pos, username, u.id, group,
                                 ACCESS_LEVEL[userdict.access_level])
       IN
       IF fails("groups_list")
       THEN \* _check: self.gl.groups.list(all=True)
            raise(<< Say("checking", pos, username) >>)
            /\ UNCHANGED <<gl_users, next_id>>
       ELSE IF group # None /\ fails("check_groups_get")
       THEN \* _check: self.gl.groups.get raises, and the error is no
            \* "Group Not Found"
            raise(<< Say("checking", pos, username) >>
                  \o NewUser_check_lines(userdict, None, pos))
            /\ UNCHANGED <<gl_users, next_id>>
       ELSE IF ~ NewUser_save_creates(NewUser_check(userdict, group), dry_run)
       THEN /\ log' = log \o checking \o
                 (IF NewUser_check(userdict, group)
                  THEN << Say("check_ok", pos, username) >> ELSE <<>>)
                 \o << Say(IF dry_run THEN "will_not_be_created_dry_run"
                                      ELSE "will_not_be_created",
                           pos, username) >>
            /\ pos' = pos + 1
            /\ UNCHANGED <<pc, gl_users, members, next_id>>
       ELSE IF fails("users_create")
       THEN raise(creating) /\ UNCHANGED <<gl_users, next_id>>
       ELSE IF ~ users_create_ok(username)
       THEN /\ log' = log \o creating
            /\ pc' = "raised"
            /\ UNCHANGED <<pos, gl_users, members, next_id>>
       ELSE
         /\ gl_users' = gl_users \cup {u}
         /\ next_id' = next_id + 1
         /\ IF fails("users_save")
            THEN \* _create: self.gluser.save()
                 raise(creating \o
                       << Request("save", pos, username, u.id, None, 0) >>)
            ELSE IF group = None
            THEN /\ log' = log \o created
                 /\ members' = members
                 /\ pos' = pos + 1
                 /\ pc' = pc
            ELSE IF fails("groups_get") /\ fault.error = "GroupNotFound"
            THEN \* _add_to_group: sys.exit("Group ... not found")
                 /\ log' = log \o created \o
                       << Raised(fault.site, pos, username, fault.error),
                          Say("group_not_found", pos, username) >>
                 /\ pc' = "exit"
                 /\ UNCHANGED <<pos, members>>
            ELSE IF fails("groups_get")
            THEN \* _add_to_group: the error is raised again
                 raise(created)
            ELSE IF fails("members_create")
            THEN \* _add_to_group: group.members.create, in no try block
                 raise(created \o << member_add >>)
            ELSE /\ log' = log \o created \o
                       << member_add, Say("added_to_group", pos, username) >>
                 /\ members' = members \cup
                       {[group |-> group, user_id |-> u.id,
                         access_level |-> ACCESS_LEVEL[userdict.access_level]]}
                 /\ pos' = pos + 1
                 /\ pc' = pc
    /\ UNCHANGED <<params, local, gl_user>>

----------------------------------------------------------------------------
(* Deletion                                                                *)

\* cli.main, one pass of the delete-from-csv loop.
CliDeleteFromCsv ==
    /\ impl = "cli" /\ command = "delete_from" /\ pc = "run"
    /\ pos <= Len(usernames)
    /\ LET username == usernames[pos]
           user == get_user_by_username(username)
           raise(lines) ==
               /\ log' = log \o lines \o
                     << Raised(fault.site, pos, username, fault.error) >>
               /\ pc' = "raised"
               /\ UNCHANGED <<pos, gl_users>>
           continue(lines) ==
               /\ log' = log \o lines
               /\ pos' = pos + 1
               /\ pc' = pc
       IN IF fails("users_list")
          THEN \* get_user_by_username: the error is no ValueError
               raise(<<>>)
          ELSE IF user.raised = "ValueError"
          THEN /\ continue(<< Say("not_found", pos, username) >>)
               /\ gl_users' = gl_users
          ELSE IF dry_run
          THEN /\ continue(<< Say("dry_run_delete", pos, username) >>)
               /\ gl_users' = gl_users
          ELSE \E line \in Answers :
                 LET confirm == lower(strip(line)) IN
                 IF confirm \in {<<"y">>, <<"y","e","s">>}
                 THEN IF fails("users_delete")
                      THEN raise(<< Input(pos, username, line),
                                    Request("delete", pos, username, user.id,
                                            None, 0) >>)
                      ELSE /\ continue(
                                << Input(pos, username, line),
                                   Request("delete", pos, username, user.id,
                                           None, 0),
                                   Say("deleted", pos, username) >>)
                           /\ gl_users' = users_delete(user.id)
                 ELSE /\ continue(<< Input(pos, username, line),
                                     Say("skipped", pos, username) >>)
                      /\ gl_users' = gl_users
    /\ UNCHANGED <<params, local, gl_user, members, next_id>>

\* cli.main, the delete-user command.
CliDeleteUser ==
    /\ impl = "cli" /\ command = "delete" /\ pc = "run"
    /\ pos <= Len(usernames)
    /\ LET username == usernames[pos]
           user == get_user_by_username(username)
           raise(lines) ==
               /\ log' = log \o lines \o
                     << Raised(fault.site, pos, username, fault.error) >>
               /\ pc' = "raised"
               /\ UNCHANGED <<pos, gl_users>>
           return(lines) ==
               /\ log' = log \o lines
               /\ pos' = pos + 1
               /\ pc' = "done"
       IN IF fails("users_list")
          THEN raise(<<>>)
          ELSE IF user.raised = "ValueError"
          THEN /\ return(<< Say("not_found", pos, username) >>)
               /\ gl_users' = gl_users
          ELSE IF dry_run
          THEN /\ return(<< Say("dry_run_delete", pos, username) >>)
               /\ gl_users' = gl_users
          ELSE IF fails("users_delete")
          THEN raise(<< Request("delete", pos, username, user.id, None, 0) >>)
          ELSE /\ return(<< Request("delete", pos, username, user.id,
                                    None, 0),
                            Say("deleted", pos, username) >>)
               /\ gl_users' = users_delete(user.id)
    /\ UNCHANGED <<params, local, gl_user, members, next_id>>

\* OldUser.delete: `not self.dry_run and query_yes_no(...)` asks the
\* operator only when the run is not a dry run.
OldUser_delete_asks_always(dry) == TRUE
OldUser_delete_asks(dry) == ~ dry

\* OldUser.__init__ and OldUser.delete up to the confirmation prompt
\* (legacy script; main's --delete-from loop and --delete).
OldUser_delete ==
    /\ impl = "legacy" /\ command \in {"delete_from", "delete"} /\ pc = "run"
    /\ pos <= Len(usernames)
    /\ LET username == usernames[pos]
           gl_user_list == users_list(username)
       IN IF gl_user_list = {}
          THEN /\ log' = log \o << Say("does_not_exist", pos, username),
                                  Say("will_not_be_deleted", pos, username) >>
               /\ UNCHANGED <<pc, gl_user>>
               /\ pos' = pos + 1
          ELSE IF ~ OldUser_delete_asks(dry_run)
          THEN /\ log' = log \o << Say("user_info", pos, username),
                                  Say("not_deleted_dry_run", pos, username) >>
               /\ UNCHANGED <<pc, gl_user>>
               /\ pos' = pos + 1
          ELSE /\ log' = Append(log, Say("user_info", pos, username))
               /\ gl_user' = (CHOOSE u \in gl_user_list : TRUE).id
               /\ pc' = "query"
               /\ pos' = pos
    /\ UNCHANGED <<params, local, gl_users, members, next_id>>

\* OldUser.delete: one pass of query_yes_no's loop and, once it returns,
\* the rest of delete().
OldUser_delete_confirm ==
    /\ impl = "legacy" /\ pc = "query"
    /\ InputCount < MaxInputs
    /\ \E line \in Answers :
         LET username == usernames[pos]
             answer == query_yes_no(line, <<"n","o">>)
         IN CASE answer = "yes" ->
                   /\ log' = log \o
                        << Input(pos, username, line),
                           Request("delete", pos, username, gl_user, None, 0),
                           Say("deleted", pos, username) >>
                   /\ gl_users' = users_delete(gl_user)
                   /\ pc' = "run" /\ pos' = pos + 1 /\ gl_user' = 0
              [] answer = "no" ->
                   /\ log' = log \o
                        << Input(pos, username, line),
                           Say("not_deleted_aborted", pos, username) >>
                   /\ gl_users' = gl_users
                   /\ pc' = "run" /\ pos' = pos + 1 /\ gl_user' = 0
              [] answer = "again" ->
                   /\ log' = log \o
                        << Input(pos, username, line),
                           Say("please_respond", pos, username) >>
                   /\ UNCHANGED <<gl_users, pc, pos, gl_user>>
    /\ UNCHANGED <<params, local, members, next_id>>

\* The oldest script: OldUser.__init__ and OldUser.delete up to the prompt.
\* It has no dry-run option.
OldUser_delete_v0 ==
    /\ impl = "old" /\ command \in {"delete_from", "delete"} /\ pc = "run"
    /\ pos <= Len(usernames)
    /\ LET username == usernames[pos]
           gl_user_list == users_list(username)
       IN IF gl_user_list = {}
          THEN /\ log' = log \o << Say("does_not_exist", pos, username),
                                  Say("will_not_be_deleted", pos, username) >>
               /\ UNCHANGED <<pc, gl_user>>
               /\ pos' = pos + 1
          ELSE /\ log' = Append(log, Say("user_info", pos, username))
               /\ gl_user' = (CHOOSE u \in gl_user_list : TRUE).id
               /\ pc' = "query"
               /\ pos' = pos
    /\ UNCHANGED <<params, local, gl_users, members, next_id>>

\* The oldest script: one pass of query_yes_no's loop and the rest of
\* delete().
OldUser_delete_confirm_v0 ==
    /\ impl = "old" /\ pc = "query"
    /\ InputCount < MaxInputs
    /\ \E line \in Answers :
         LET username == usernames[pos]
             answer == query_yes_no(line, <<"n","o">>)
         IN CASE answer = "yes" ->
                   /\ log' = log \o
                        << Input(pos, username, line),
                           Request("delete", pos, username, gl_user, None, 0),
                           Say("deleted", pos, username) >>
                   /\ gl_users' = users_delete(gl_user)
                   /\ pc' = "run" /\ pos' = pos + 1 /\ gl_user' = 0
              [] answer = "no" ->
                   /\ log' = log \o
                        << Input(pos, username, line),
                           Say("not_deleted", pos, username) >>
                   /\ gl_users' = gl_users
                   /\ pc' = "run" /\ pos' = pos + 1 /\ gl_user' = 0
              [] answer = "again" ->
                   /\ log' = log \o
                        << Input(pos, username, line),
                           Say("please_respond", pos, username) >>
                   /\ UNCHANGED <<gl_users, pc, pos, gl_user>>
    /\ UNCHANGED <<params, local, members, next_id>>

\* main: the loop over the file is exhausted and main returns.
MainReturn ==
    /\ pc = "run"
    /\ pos > (IF command = "create" THEN Len(users) ELSE Len(usernames))
    /\ pc' = "done"
    /\ UNCHANGED <<params, local, pos, gl_user, gl_users, members, next_id, log>>

Next ==
    \/ CliCreateFromCsv
    \/ NewUser_save
    \/ CliDeleteFromCsv
    \/ CliDeleteUser
    \/ OldUser_delete
    \/ OldUser_delete_confirm
    \/ OldUser_delete_v0
    \/ OldUser_delete_confirm_v0
    \/ MainReturn

Spec == Init /\ [][Next]_vars

----------------------------------------------------------------------------
(* Reading the log                                                         *)

LogIdx == 1..Len(log)
IsRequest(i, op) == log[i].kind = "request" /\ log[i].op = op
IsSay(i, msg) == log[i].kind = "print" /\ log[i].op = msg
IsInput(i) == log[i].kind = "input"

RequestsFor(op, rec) == {i \in LogIdx : IsRequest(i, op) /\ log[i].rec = rec}
Said(msg, rec) == \E i \in LogIdx : IsSay(i, msg) /\ log[i].rec = rec

Deleting == command \in {"delete_from", "delete"}

\* The user of the initial directory with this username (id 0 if none).
InitIdOf(username) ==
    IF \E u \in InitUsers : u.username = username
    THEN (CHOOSE u \in InitUsers : u.username = username).id
    ELSE 0

yes == <<"y","e","s">>
y   == <<"y">>
ye  == <<"y","e">>
no  == <<"n","o">>
n   == <<"n">>

----------------------------------------------------------------------------
(* Deletion safety                                                         *)

\* C1 (as claimed): every delete request is preceded, in a run that is not
\* a dry run, by an affirmative answer of the operator for the same user.
C1_DeleteOnlyAfterConfirmation ==
    \A i \in LogIdx :
        IsRequest(i, "delete") =>
            /\ ~ dry_run
            /\ \E j \in 1..(i - 1) :
                   /\ IsInput(j)
                   /\ log[j].rec = log[i].rec
                   /\ lower(strip(log[j].line)) \in {y, ye, yes}

\* C2: in a dry run of a deletion command no delete request is issued and
\* nothing is read from the operator, for found and unknown usernames.
C2_DryRunDeletesNothing ==
    (Deleting /\ dry_run) =>
        /\ \A i \in LogIdx : ~ IsRequest(i, "delete") /\ ~ IsInput(i)
        /\ gl_users = InitUsers
        /\ pc # "query"

\* C2 witness: a finished dry run over a file naming a found and an
\* unknown user.
C2_Witness ==
    /\ Deleting /\ dry_run /\ pc = "done"
    /\ \E i, j \in 1..Len(usernames) :
          /\ InitIdOf(usernames[i]) # 0
          /\ InitIdOf(usernames[j]) = 0

\* C4 (as claimed): an answer is "y" or "yes" in any letter case exactly
\* when it is followed by the delete request for that user, issued once.
C4_OnlyYOrYesDeletes ==
    \A i \in LogIdx :
        IsInput(i) =>
            /\ (lower(log[i].line) \in {y, yes})
                  <=> (i < Len(log) /\ IsRequest(i + 1, "delete")
                         /\ log[i + 1].rec = log[i].rec)
            /\ Cardinality(RequestsFor("delete", log[i].rec)) <= 1

\* C4 (amended): delete-from-csv deletes exactly on an answer that is "y"
\* or "yes" once trimmed and lower-cased; the legacy prompt deletes exactly
\* on "y", "ye" or "yes" in any letter case, takes "n", "no" and the empty
\* answer as no, and asks again on anything else.  A delete request is
\* issued at most once per user and carries the id of the looked-up user.
C4_ConfirmationDecides ==
    \A i \in LogIdx :
        IsInput(i) =>
            LET line == log[i].line
                rec == log[i].rec
                deletes == /\ i < Len(log)
                           /\ IsRequest(i + 1, "delete")
                           /\ log[i + 1].rec = rec
                asksAgain == i < Len(log) /\ IsSay(i + 1, "please_respond")
            IN  /\ Cardinality(RequestsFor("delete", rec)) <= 1
                /\ deletes => log[i + 1].id = InitIdOf(log[i].user)
                /\ (~ deletes /\ ~ asksAgain) => RequestsFor("delete", rec) = {}
                /\ impl = "cli" =>
                      /\ deletes <=> lower(strip(line)) \in {y, yes}
                      /\ ~ asksAgain
                /\ impl \in {"legacy", "old"} =>
                      /\ deletes <=> lower(line) \in {y, ye, yes}
                      /\ asksAgain <=> lower(line) \notin {y, ye, yes, n, no, <<>>}

\* C4 witness: the legacy prompt read "ye" and the delete request followed.
C4_Witness ==
    \E i \in LogIdx :
        /\ impl \in {"legacy", "old"}
        /\ IsInput(i) /\ lower(log[i].line) = ye
        /\ i < Len(log) /\ IsRequest(i + 1, "delete")

----------------------------------------------------------------------------
(* Creation                                                                *)

Creating == command = "create"
RecIdx == 1..Len(users)

InitUsernames == {u.username : u \in InitUsers}
InitEmails == {u.email : u \in InitUsers}
InitNames == {u.name : u \in InitUsers}

\* Access-level keys each tool accepts.
RecognizedLegacy(level) ==
    level \in {guest, reporter, developer, master, maintainer, owner}
RecognizedCli(level) ==
    lower(level) \in {minimal_access, guest, reporter, developer,
                      maintainer, owner}
Recognized(level) ==
    IF impl = "cli" THEN RecognizedCli(level) ELSE RecognizedLegacy(level)

\* The record asks for a group with a level the running tool does not know.
BadLevel(i) == Truthy(users[i].group) /\ ~ Recognized(users[i].access_level)

\* The record fails one of the pre-flight conditions of the creation
\* workflow against the initial directory.
FailsPreflight(i) ==
    \/ users[i].username \in InitUsernames
    \/ users[i].email \in InitEmails
    \/ users[i].name \in InitNames
    \/ Truthy(users[i].group) /\ users[i].group \notin InitGroups

\* C3: a dry run of a creation batch issues no user-create, user-save or
\* group-membership-add request, whatever the records are.
C3_DryRunCreatesNothing ==
    (Creating /\ dry_run) =>
        /\ \A i \in LogIdx : log[i].kind # "request"
        /\ gl_users = InitUsers
        /\ members = {}

\* C3 witness: a dry run went through a file holding a conflicting record
\* and a record with an unknown access level.
C3_Witness ==
    /\ Creating /\ dry_run /\ pc = "done"
    /\ \E i, j \in RecIdx :
          /\ users[i].username \in InitUsernames
          /\ users[j].group = "devs" /\ users[j].access_level = bogus

\* C6 (as claimed): a record whose username is already in the directory
\* gets no create request, and a conflict is reported once it is handled.
C6_ExistingUsernameNeverCreated ==
    Creating =>
        \A i \in RecIdx :
            users[i].username \in InitUsernames =>
                /\ RequestsFor("create", i) = {}
                /\ (i < pos /\ ~ BadLevel(i)) => Said("username_already_used", i)

\* C7 (as claimed): a record naming a group with an unrecognized access
\* level gets neither a create nor a membership request.
C7_BadLevelFailsBeforeMutation ==
    Creating =>
        \A i \in RecIdx :
            BadLevel(i) =>
                /\ RequestsFor("create", i) = {}
                /\ RequestsFor("member_add", i) = {}

\* C7 (amended): a record naming a group with an access level the running
\* tool does not recognize never gets a membership request; the legacy
\* script stops at it before any request for it, whereas the cli command
\* has issued the record's create request before it reports the unknown
\* level.
C7_BadLevelNeverAddsMember ==
    Creating =>
        \A i \in RecIdx :
            BadLevel(i) =>
                /\ RequestsFor("member_add", i) = {}
                /\ impl = "legacy" =>
                      \A k \in LogIdx : log[k].rec = i => log[k].kind # "request"
                /\ impl = "cli" =>
                      \A k \in LogIdx :
                          (IsSay(k, "unknown_access_level") /\ log[k].rec = i) =>
                              \E c \in 1..(k - 1) :
                                  IsRequest(c, "create") /\ log[c].rec = i

\* C7 witness: the cli command reported an unknown level for a record whose
\* create request it had issued.
C7_Witness ==
    /\ impl = "cli" /\ Creating
    /\ \E i \in RecIdx :
          /\ BadLevel(i)
          /\ Said("unknown_access_level", i)
          /\ RequestsFor("create", i) # {}

\* C8 (as claimed): create-from-csv without dry-run, on a record with a
\* group and an unrecognized access level: the user is created, the unknown
\* level is reported, no membership request is issued, the batch goes on.
C8_UnknownLevelWarned ==
    (impl = "cli" /\ Creating /\ ~ dry_run) =>
        \A i \in RecIdx :
            (BadLevel(i) /\ TruthyText(users[i].access_level) /\ i < pos) =>
                /\ RequestsFor("create", i) # {}
                /\ Said("created", i)
                /\ Said("unknown_access_level", i)
                /\ RequestsFor("member_add", i) = {}

\* C8 (amended): the same, for a record whose group exists in the directory
\* and whose create request the directory accepts (its username is not in
\* use): user created, unknown level reported, no membership request, and
\* the loop moves to the next record.
C8_UnknownLevelWarnedWhenGroupExists ==
    (impl = "cli" /\ Creating /\ ~ dry_run) =>
        \A i \in RecIdx :
            (BadLevel(i) /\ TruthyText(users[i].access_level)
               /\ users[i].group \in InitGroups
               /\ (\A u \in InitUsers : u.username # users[i].username)
               /\ (\A j \in 1..(i - 1) : users[j].username # users[i].username)
               /\ (i < pos \/ (i = pos /\ pc # "run"))) =>
                /\ i < pos
                /\ Cardinality(RequestsFor("create", i)) = 1
                /\ Said("created", i)
                /\ Said("unknown_access_level", i)
                /\ ~ Said("could_not_add_to_group", i)
                /\ RequestsFor("member_add", i) = {}
                /\ \E u \in gl_users : u.username = users[i].username
                /\ \A m \in members :
                      \A u \in gl_users :
                          u.username = users[i].username => m.user_id # u.id

\* C8 witness: the warning was reported for the first record and the second
\* record has been handled too.
C8_Witness ==
    /\ impl = "cli" /\ Creating /\ ~ dry_run
    /\ Len(users) = 2 /\ pos = 3
    /\ users[1].group \in InitGroups
    /\ Said("unknown_access_level", 1)
    /\ Said("created", 1)

\* C9 (as claimed): a record failing a pre-flight condition never keeps a
\* later record of the file from being processed.
C9_FailedCheckNeverStopsBatch ==
    Creating =>
        \A i \in RecIdx :
            (FailsPreflight(i) /\ ~ BadLevel(i) /\ i < Len(users)) =>
                ~ (pos = i /\ pc \in {"exit", "raised"})

----------------------------------------------------------------------------
(* Groups that do not exist                                                *)

\* The record names a group the directory does not have.
MissingGroup(i) == Truthy(users[i].group) /\ users[i].group \notin InitGroups

----------------------------------------------------------------------------
(* Deleting a username that is not in the directory                        *)

\* The directory has no user of this name when the run reaches element i:
\* it never had one, or an earlier element of the file had it deleted.
NotFoundAt(i) ==
    \/ InitIdOf(usernames[i]) = 0
    \/ \E j \in 1..(i - 1) :
          usernames[j] = usernames[i] /\ RequestsFor("delete", j) # {}

\* C12: a username that is not found is never deleted and never prompted
\* for; it is reported, the run goes on to the next element, and no
\* deletion run ends on an error.
C12_NotFoundIsSkipped ==
    Deleting =>
        /\ pc \notin {"exit", "raised"}
        /\ \A i \in 1..Len(usernames) :
              NotFoundAt(i) =>
                  /\ RequestsFor("delete", i) = {}
                  /\ \A k \in LogIdx : log[k].rec = i => ~ IsInput(k)
                  /\ pos = i => pc = "run"
                  /\ i < pos =>
                        \/ Said("not_found", i)
                        \/ Said("does_not_exist", i)

\* C12 witness: a file run has ended normally after reporting its first
\* username as not found and deleting the second.
C12_Witness ==
    /\ command = "delete_from" /\ pc = "done"
    /\ Len(usernames) = 2 /\ NotFoundAt(1)
    /\ Said("not_found", 1) \/ Said("does_not_exist", 1)
    /\ RequestsFor("delete", 2) # {}

----------------------------------------------------------------------------
(* CSV loaders                                                             *)

\* Lines a CSV file may hold, without their line ends and without quote
\* characters: rows of 3, 7 and 8 columns, padded fields, empty columns,
\* comment lines, a blank line and a line whose '#' is not its first
\* character.
Lines ==
    { <<"b",",","B",",","e">>,
      <<"a",","," ","A"," ",",","f",",","o",",","l",",","g",",","d">>,
      <<"a",",","A",",","f",",","o",",","l",",","g",",","d",",","x">>,
      <<"c",",",",">>,
      <<"#","b",",","B">>,
      <<"#">>,
      <<" ","#","c">>,
      <<>> }

fieldnames ==
    << "username", "name", "email", "organization", "location", "group",
       "access_level" >>

\* str.startswith for a one-character prefix.
startswith(row, prefix) == Len(row) > 0 /\ row[1] = prefix

\* The filter dropping every line that holds a '#' anywhere.
not_comment_anywhere(row) == \A i \in 1..Len(row) : row[i] # "#"

\* The generator handed to csv.reader: the lines that are not comments.
not_comment(row) == ~ startswith(row, "#")
uncommented(lines) == SelectSeq(lines, not_comment)

\* The end of a line handed to csv.reader (no character).
EOL == "EOL"

\* csv.reader's parser (excel dialect: delimiter ',', quotechar '"',
\* doublequote, not strict) taking one character or the end of a line;
\* p holds its state, the field and the row in progress and the rows read.
csv_process_char(p, c) ==
    LET saved == [p EXCEPT !.fields = Append(p.fields, p.field),
                           !.field = <<>>]
        added == [p EXCEPT !.field = Append(p.field, c)]
        ends == c \in {"\n", "\r", EOL}
        after == IF c = EOL THEN "START_RECORD" ELSE "EAT_CRNL"
    IN
    CASE p.state = "START_RECORD" /\ c = EOL -> p
      [] p.state = "START_RECORD" /\ c \in {"\n", "\r"} ->
            [p EXCEPT !.state = "EAT_CRNL"]
      [] \/ p.state = "START_RECORD" /\ ~ ends
         \/ p.state = "START_FIELD" ->
            IF ends THEN [saved EXCEPT !.state = after]
            ELSE IF c = "\"" THEN [p EXCEPT !.state = "IN_QUOTED_FIELD"]
            ELSE IF c = "," THEN [saved EXCEPT !.state = "START_FIELD"]
            ELSE [added EXCEPT !.state = "IN_FIELD"]
      [] p.state = "IN_FIELD" ->
            IF ends THEN [saved EXCEPT !.state = after]
            ELSE IF c = "," THEN [saved EXCEPT !.state = "START_FIELD"]
            ELSE added
      [] p.state = "IN_QUOTED_FIELD" ->
            IF c = EOL THEN p
            ELSE IF c = "\"" THEN [p EXCEPT !.state = "QUOTE_IN_QUOTED_FIELD"]
            ELSE added
      [] p.state = "QUOTE_IN_QUOTED_FIELD" ->
            IF c = "\"" THEN [added EXCEPT !.state = "IN_QUOTED_FIELD"]
            ELSE IF c = "," THEN [saved EXCEPT !.state = "START_FIELD"]
            ELSE IF ends THEN [saved EXCEPT !.state = after]
            ELSE [added EXCEPT !.state = "IN_FIELD"]
      [] p.state = "EAT_CRNL" ->
            \* a line ends at its line end: only that and EOL come here
            IF c = EOL THEN [p EXCEPT !.state = "START_RECORD"] ELSE p

csv_start ==
    [state |-> "START_RECORD", field |-> <<>>, fields |-> <<>>, rows |-> <<>>]

\* The parser taken through the characters lo..hi of one line, the first
\* half before the second; once the line end has been read (EAT_CRNL)
\* what is left of the line changes nothing.
RECURSIVE csv_parse_chars(_, _, _, _)
csv_parse_chars(p, line, lo, hi) ==
    IF lo > hi THEN p
    ELSE IF lo = hi THEN csv_process_char(p, line[lo])
    ELSE LET mid == (lo + hi) \div 2
             q == csv_parse_chars(p, line, lo, mid)
         IN IF q.state = "EAT_CRNL" THEN q
            ELSE csv_parse_chars(q, line, mid + 1, hi)

csv_parse_line(p, line) == csv_parse_chars(p, line, 1, Len(line))

\* The reader's loop (Reader_iternext): each line goes through the parser
\* and is followed by EOL; a row is returned when the parser is then back
\* at the start of a record, else the next line continues the row. When
\* the lines run out inside a quoted field the row in progress is returned.
csv_iternext(lines) ==
    LET reader[j \in 0..Len(lines)] ==
            IF j = 0 THEN csv_start
            ELSE LET p == reader[j - 1]
                     q == IF p.state = "START_RECORD"
                          THEN csv_process_char(
                                   csv_parse_line(csv_start, lines[j]), EOL)
                          ELSE csv_process_char(
                                   csv_parse_line([p EXCEPT !.rows = <<>>],
                                                  lines[j]), EOL)
                 IN IF q.state = "START_RECORD"
                    THEN [csv_start EXCEPT !.rows = Append(p.rows, q.fields)]
                    ELSE [q EXCEPT !.rows = p.rows]
        p == reader[Len(lines)]
    IN IF p.state = "IN_QUOTED_FIELD"
       THEN Append(p.rows, Append(p.fields, p.field))
       ELSE p.rows

\* The lines of a file opened in text mode, as the reader gets them: each
\* with its line end.
readlines(lines) == [j \in 1..Len(lines) |-> Append(lines[j], "\n")]

\* csv.reader over the lines of a file: the rows, the empty row for a
\* blank line.
csv_reader(lines) == csv_iternext(readlines(lines))

\* [[x.strip() for x in row] for row in csvreader]
stripped_reader(rows) ==
    [i \in 1..Len(rows) |-> [k \in 1..Len(rows[i]) |-> strip(rows[i][k])]]

FieldIndex(name) == CHOOSE k \in 1..Len(fieldnames) : fieldnames[k] = name

\* dict(zip_longest(fieldnames, row)): every field name gets its column or
\* None; the columns past the schema all go under the key None, the last
\* one staying.
zip_longest(names, row) ==
    [name \in {names[k] : k \in 1..Len(names)} \cup
              (IF Len(row) > Len(names) THEN {None} ELSE {}) |->
        IF name = None THEN row[Len(row)]
        ELSE IF FieldIndex(name) <= Len(row) THEN row[FieldIndex(name)]
        ELSE NoneText]

\* dict(zip(fieldnames, row)): only the field names that have a column.
zip(names, row) ==
    [name \in {names[k] : k \in {j \in 1..Len(names) : j <= Len(row)}} |->
        row[FieldIndex(name)]]

\* utils.get_users_from_csv, and the function of the same code in the
\* legacy script.
get_users_from_csv(lines) ==
    LET rows == stripped_reader(csv_reader(uncommented(lines))) IN
    [i \in 1..Len(rows) |-> zip_longest(fieldnames, rows[i])]

\* get_users_from_csv of the first generation of the script.
get_users_from_csv_v0(lines) ==
    LET rows == csv_reader(uncommented(lines)) IN
    [i \in 1..Len(rows) |-> zip(fieldnames, rows[i])]

nonempty(row) == row # <<>>

\* utils.get_usernames_from_csv: [row[0] for row in csvreader if row]
get_usernames_from_csv(lines) ==
    LET rows == SelectSeq(csv_reader(uncommented(lines)), nonempty) IN
    [raised |-> "", usernames |-> [i \in 1..Len(rows) |-> rows[i][1]]]

\* get_usernames_from_csv of the two generations of the script:
\* [row[0] for row in csvreader], IndexError on an empty row.
get_usernames_from_csv_legacy(lines) ==
    LET rows == csv_reader(uncommented(lines)) IN
    IF \E i \in 1..Len(rows) : rows[i] = <<>>
    THEN [raised |-> "IndexError", usernames |-> <<>>]
    ELSE [raised |-> "", usernames |-> [i \in 1..Len(rows) |-> rows[i][1]]]

\* The state before a loader runs on a file.
InitCsv ==
    /\ impl \in {"cli", "legacy", "old"}
    /\ command \in {"create", "delete_from"}
    /\ csvfile \in SeqsUpTo(Lines, MaxLines)
    /\ loaded = NotLoaded
    /\ pc = "load"
    /\ dry_run = FALSE
    /\ users = <<>>
    /\ usernames = <<>>
    /\ pos = 1
    /\ gl_user = 0
    /\ gl_users = InitUsers
    /\ members = {}
    /\ next_id = 21
    /\ log = <<>>
    /\ NoReport
    /\ NoExport
    /\ NoLookup
    /\ fault = NoFault

notloader == <<impl, command, dry_run, users, usernames, pos, gl_user,
               gl_users, members, next_id, log, all_gl_users, now, buckets,
               written, reread, found, fault>>

\* main: users = get_users_from_csv(args.csv_file)
LoadUsers ==
    /\ pc = "load" /\ command = "create" /\ impl \in {"cli", "legacy"}
    /\ loaded' = [fn |-> "get_users_from_csv", raised |-> "",
                  newusers |-> get_users_from_csv(csvfile),
                  usernames |-> <<>>]
    /\ pc' = "loaded"
    /\ UNCHANGED <<notloader, csvfile>>

\* main of the first generation: get_users_from_csv(args.create_from)
LoadUsers_v0 ==
    /\ pc = "load" /\ command = "create" /\ impl = "old"
    /\ loaded' = [fn |-> "get_users_from_csv", raised |-> "",
                  newusers |-> get_users_from_csv_v0(csvfile),
                  usernames |-> <<>>]
    /\ pc' = "loaded"
    /\ UNCHANGED <<notloader, csvfile>>

\* cli.main: usernames = get_usernames_from_csv(args.csv_file)
LoadUsernames ==
    /\ pc = "load" /\ command = "delete_from" /\ impl = "cli"
    /\ LET r == get_usernames_from_csv(csvfile) IN
       /\ loaded' = [fn |-> "get_usernames_from_csv", raised |-> r.raised,
                     newusers |-> <<>>, usernames |-> r.usernames]
       /\ pc' = IF r.raised = "" THEN "loaded" ELSE "raised"
    /\ UNCHANGED <<notloader, csvfile>>

\* main of the script: get_usernames_from_csv(args.delete_from)
LoadUsernames_legacy ==
    /\ pc = "load" /\ command = "delete_from" /\ impl \in {"legacy", "old"}
    /\ LET r == get_usernames_from_csv_legacy(csvfile) IN
       /\ loaded' = [fn |-> "get_usernames_from_csv", raised |-> r.raised,
                     newusers |-> <<>>, usernames |-> r.usernames]
       /\ pc' = IF r.raised = "" THEN "loaded" ELSE "raised"
    /\ UNCHANGED <<notloader, csvfile>>

NextCsv ==
    \/ LoadUsers
    \/ LoadUsers_v0
    \/ LoadUsernames
    \/ LoadUsernames_legacy

SpecCsv == InitCsv /\ [][NextCsv]_vars

LoadedUsers == loaded.fn = "get_users_from_csv"
LoadedUsernames == loaded.fn = "get_usernames_from_csv"

\* The rows csv.reader hands a loader for the current file.
DataRows == csv_reader(uncommented(csvfile))

\* C13 (as claimed): a row of fewer than 7 columns gives a record in which
\* every field name past the row's columns is mapped to None, and every
\* field name that has a column is mapped to that column's text (up to
\* surrounding whitespace), in schema order.
C13_ShortRowsLeaveFieldsAbsent ==
    LoadedUsers =>
        /\ Len(loaded.newusers) = Len(DataRows)
        /\ \A i \in 1..Len(DataRows) :
              Len(DataRows[i]) < Len(fieldnames) =>
                  \A k \in 1..Len(fieldnames) :
                      /\ fieldnames[k] \in DOMAIN loaded.newusers[i]
                      /\ IF k <= Len(DataRows[i])
                         THEN strip(loaded.newusers[i][fieldnames[k]])
                                  = strip(DataRows[i][k])
                         ELSE loaded.newusers[i][fieldnames[k]] = NoneText

\* The lines of the file that do not begin with '#'.
IsComment(line) == Len(line) > 0 /\ line[1] = "#"
IsData(line) == ~ IsComment(line)
Kept == SelectSeq(csvfile, IsData)

\* What the running tool's loaders return for a file.
UsersOf(lines) ==
    IF impl = "old" THEN get_users_from_csv_v0(lines)
    ELSE get_users_from_csv(lines)
UsernamesOf(lines) ==
    IF impl = "cli" THEN get_usernames_from_csv(lines)
    ELSE get_usernames_from_csv_legacy(lines)

\* C14: a loader returns nothing for the lines beginning with '#': the
\* creation loader returns one record per other line, the one it returns
\* for that line alone, in file order; the deletion loader returns the
\* usernames of the other lines, those it returns for each line alone, in
\* file order; both return what they return for the file without its
\* comment lines.
C14_CommentLinesIgnored ==
    /\ LoadedUsers =>
          /\ loaded.newusers = UsersOf(Kept)
          /\ Len(loaded.newusers) = Len(Kept)
          /\ \A i \in 1..Len(Kept) :
                UsersOf(<< Kept[i] >>) = << loaded.newusers[i] >>
    /\ LoadedUsernames =>
          /\ loaded.raised = UsernamesOf(Kept).raised
          /\ loaded.usernames = UsernamesOf(Kept).usernames
          /\ loaded.raised = "" =>
                LET named == SelectSeq(Kept, nonempty) IN
                /\ Len(loaded.usernames) = Len(named)
                /\ \A i \in 1..Len(named) :
                      UsernamesOf(<< named[i] >>).usernames
                          = << loaded.usernames[i] >>

\* C14 witness: the creation loader returned two records for a file of
\* three lines whose second line is a comment.
C14_Witness ==
    /\ LoadedUsers
    /\ Len(csvfile) = 3
    /\ IsData(csvfile[1]) /\ IsComment(csvfile[2]) /\ IsData(csvfile[3])
    /\ Len(csvfile[2]) > 1
    /\ Len(loaded.newusers) = 2

\* The text of a line before its first comma.
FirstColumn(line) ==
    IF \E k \in 1..Len(line) : line[k] = ","
    THEN SubSeq(line, 1,
                (CHOOSE k \in 1..Len(line) :
                     line[k] = "," /\ \A j \in 1..(k - 1) : line[j] # ",") - 1)
    ELSE line

\* C15 (as claimed): the deletion loader raises no error and returns the
\* first columns of the lines that are neither comments nor blank, in file
\* order, nothing standing for a blank line.
C15_BlankLinesSkipped ==
    LoadedUsernames =>
        LET named == SelectSeq(Kept, nonempty) IN
        /\ loaded.raised = ""
        /\ loaded.usernames = [i \in 1..Len(named) |-> FirstColumn(named[i])]

----------------------------------------------------------------------------
(* Activity classification                                                 *)

\* timedelta(days=365)
timedelta_days == 365

\* current_sign_in_at of a listed user: <<>> for None, <<date, hour>> for
\* the text "<date>T<hour>..." (dates are day numbers).
SignIns == { <<>>, <<34, 23>>, <<35, 0>>, <<35, 12>>, <<36, 1>>, <<399, 5>> }

\* state and current_sign_in_at of a listed user.
Accounts == {"active", "blocked"} \X SignIns

\* The moments a report may be made at.
Nows == { <<400, 0>>, <<400, 10>> }

\* gl.users.list(all=True): the listed users, their ids in listing order.
Listings ==
    UNION { { [i \in 1..k |-> [id |-> i, state |-> f[i][1],
                                current_sign_in_at |-> f[i][2]]] :
              f \in [1..k -> Accounts] } : k \in 0..MaxListed }

\* GLUsers._sign_in_date as the class body leaves it, its second
\* definition: __class__._format_date is no attribute of GLUsers.
GLUsers_sign_in_date(u) == [raised |-> "AttributeError", date |-> 0]

\* GLUsers._sign_in_date of the first generation:
\* gl_user.current_sign_in_at.split('T')[0]
GLUsers_sign_in_date_v0(u) ==
    [raised |-> "", date |-> u.current_sign_in_at[1]]

\* datetime.strptime(date, "%Y-%m-%d"): midnight of the date, in hours.
strptime(date) == date * 24

\* datetime.now() - timedelta(days=365), in hours.
a_year_before(t) == (t[1] - timedelta_days) * 24 + t[2]

\* The classification loop shared by the two generations; an exception of
\* _sign_in_date leaves the loop and the method.
classify(generation, with_active, listing, t) ==
    LET sign_in_date(u) == IF generation = "old"
                           THEN GLUsers_sign_in_date_v0(u)
                           ELSE GLUsers_sign_in_date(u)
        signed(u) == u.current_sign_in_at # <<>>
        already(u) == signed(u) /\ u.state = "active"
        old(u) == already(u)
                  /\ strptime(sign_in_date(u).date) < a_year_before(t)
        recent(u) == already(u)
                     /\ ~ (strptime(sign_in_date(u).date) < a_year_before(t))
        never(u) == ~ signed(u) /\ u.state = "active"
    IN IF \E i \in 1..Len(listing) :
              signed(listing[i]) /\ sign_in_date(listing[i]).raised # ""
       THEN [raised |-> "AttributeError", old_sign_in |-> <<>>,
             never_sign_in |-> <<>>, already_sign_in |-> <<>>,
             active |-> <<>>]
       ELSE [raised |-> "",
             old_sign_in |-> SelectSeq(listing, old),
             never_sign_in |-> SelectSeq(listing, never),
             already_sign_in |-> SelectSeq(listing, already),
             active |-> IF with_active THEN SelectSeq(listing, recent)
                        ELSE <<>>]

\* The state before a report is made.
InitActivity ==
    /\ impl \in {"legacy", "old"}
    /\ command = "list"
    /\ all_gl_users \in Listings
    /\ now \in Nows
    /\ buckets = NoBuckets
    /\ pc = "report"
    /\ dry_run = FALSE
    /\ users = <<>>
    /\ usernames = <<>>
    /\ pos = 1
    /\ gl_user = 0
    /\ gl_users = InitUsers
    /\ members = {}
    /\ next_id = 21
    /\ log = <<>>
    /\ NoFile
    /\ NoExport
    /\ NoLookup
    /\ fault = NoFault

notreport == <<impl, command, dry_run, users, usernames, pos, gl_user,
               gl_users, members, next_id, log, csvfile, loaded,
               all_gl_users, now, written, reread, found, fault>>

\* GLUsers._getactivity of the legacy script.
GLUsers_getactivity ==
    /\ pc = "report" /\ impl = "legacy"
    /\ buckets' = classify("legacy", TRUE, all_gl_users, now)
    /\ pc' = IF buckets'.raised = "" THEN "reported" ELSE "raised"
    /\ UNCHANGED notreport

\* GLUsers.output of the first generation, which has no "active" bucket.
GLUsers_output_v0 ==
    /\ pc = "report" /\ impl = "old"
    /\ buckets' = classify("old", FALSE, all_gl_users, now)
    /\ pc' = IF buckets'.raised = "" THEN "reported" ELSE "raised"
    /\ UNCHANGED notreport

NextActivity ==
    \/ GLUsers_getactivity
    \/ GLUsers_output_v0

SpecActivity == InitActivity /\ [][NextActivity]_vars

InBucket(b, u) == \E k \in 1..Len(b) : b[k] = u

\* The user's sign-in date is more than 365 days before the report.
SignedInOverAYearAgo(u) ==
    /\ u.current_sign_in_at # <<>>
    /\ (u.current_sign_in_at[1] + 365) * 24 < now[1] * 24 + now[2]

\* C16 (as claimed): once the classification has run it has returned its
\* buckets; an active user without a sign-in timestamp is in the
\* never-signed-in bucket only; an active user whose sign-in date is more
\* than 365 days before the report is in the already-signed-in and the
\* stale buckets and not in the recently-active one.
C16_ActivityBuckets ==
    pc # "report" =>
        /\ buckets.raised = ""
        /\ \A i \in 1..Len(all_gl_users) :
              LET u == all_gl_users[i] IN
              /\ (u.state = "active" /\ u.current_sign_in_at = <<>>) =>
                    /\ InBucket(buckets.never_sign_in, u)
                    /\ ~ InBucket(buckets.old_sign_in, u)
                    /\ ~ InBucket(buckets.already_sign_in, u)
                    /\ ~ InBucket(buckets.active, u)
              /\ (u.state = "active" /\ SignedInOverAYearAgo(u)) =>
                    /\ InBucket(buckets.already_sign_in, u)
                    /\ InBucket(buckets.old_sign_in, u)
                    /\ ~ InBucket(buckets.active, u)

----------------------------------------------------------------------------
(* export_users_to_csv                                                     *)

state_active  == <<"a","c","t","i","v","e">>
state_blocked == <<"b","l","o","c","k","e","d">>

\* Users an export may be given (models.User): plain fields, a name with a
\* comma, with quotes, with a line feed, with a carriage return, an empty
\* name, an empty and a padded e-mail, ids of one and two digits.
ExportedUsers ==
    { [id |-> 1, username |-> <<"a">>, name |-> <<"A">>,
       email |-> <<"a","@","x">>, state |-> state_active],
      [id |-> 12, username |-> <<"b">>, name |-> <<"O",",","K">>,
       email |-> <<>>, state |-> state_blocked],
      [id |-> 3, username |-> <<"c">>, name |-> <<"\"","Q","\"">>,
       email |-> <<"c","@","x">>, state |-> state_active],
      [id |-> 4, username |-> <<"d">>, name |-> <<"L","\n","F">>,
       email |-> <<>>, state |-> state_active],
      [id |-> 5, username |-> <<"e">>, name |-> <<>>,
       email |-> <<" ","e"," ">>, state |-> state_blocked],
      [id |-> 10, username |-> <<"f">>, name |-> <<"x","\r">>,
       email |-> <<"f","@","x">>, state |-> state_active] }

\* The header row export_users_to_csv writes.
header ==
    << <<"i","d">>, <<"u","s","e","r","n","a","m","e">>,
       <<"n","a","m","e">>, <<"e","m","a","i","l">>,
       <<"s","t","a","t","e">> >>

Digits == <<"0","1","2","3","4","5","6","7","8","9">>

\* str() of a non-negative integer, as csv.writer writes a number.
RECURSIVE str(_)
str(number) ==
    IF number < 10 THEN << Digits[number + 1] >>
    ELSE str(number \div 10) \o << Digits[(number % 10) + 1] >>

\* A writer that never quotes.
writer_quotes_never(field) == FALSE

\* csv.writer with QUOTE_MINIMAL quotes a field that holds the delimiter,
\* the quote character or a character of a line end.
writer_quotes(field) ==
    \E i \in 1..Len(field) : field[i] \in {",", "\"", "\r", "\n"}

\* doublequote: every quote character of a quoted field is written twice.
RECURSIVE doublequote(_)
doublequote(field) ==
    IF field = <<>> THEN <<>>
    ELSE (IF Head(field) = "\"" THEN << "\"", "\"" >> ELSE << Head(field) >>)
         \o doublequote(Tail(field))

writer_field(field) ==
    IF writer_quotes(field)
    THEN << "\"" >> \o doublequote(field) \o << "\"" >>
    ELSE field

\* writer.writerow(row) for a row of two fields or more: the fields joined
\* by the delimiter, then the line terminator "\r\n".
RECURSIVE writer_join(_)
writer_join(row) ==
    IF Len(row) = 1 THEN writer_field(row[1])
    ELSE writer_field(Head(row)) \o << "," >> \o writer_join(Tail(row))

writerow(row) == writer_join(row) \o << "\r", "\n" >>

\* The rows written after the header, one per user.
RECURSIVE writerows(_)
writerows(list) ==
    IF list = <<>> THEN <<>>
    ELSE LET user == Head(list) IN
         writerow(<< str(user.id), user.username, user.name, user.email,
                     user.state >>)
         \o writerows(Tail(list))

\* utils.export_users_to_csv: the text of the file (opened with
\* newline="").
export_users_to_csv(list) == writerow(header) \o writerows(list)

\* The lines of a text read with newline="": each ends after "\n", after
\* "\r\n", after a "\r" that no "\n" follows, or with the text.
LineEnds(text) ==
    {i \in 1..Len(text) :
        \/ text[i] = "\n"
        \/ text[i] = "\r" /\ (i = Len(text) \/ text[i + 1] # "\n")
        \/ i = Len(text)}

splitlines(text) ==
    LET ends == LineEnds(text)
        nth(k) == CHOOSE i \in ends : Cardinality({j \in ends : j <= i}) = k
    IN [k \in 1..Cardinality(ends) |->
           SubSeq(text, IF k = 1 THEN 1 ELSE nth(k - 1) + 1, nth(k))]

\* The state before an export.
InitExport ==
    /\ impl = "cli"
    /\ command = "export"
    /\ all_gl_users \in SeqsUpTo(ExportedUsers, MaxListed)
    /\ now = <<0, 0>>
    /\ buckets = NoBuckets
    /\ NoExport
    /\ NoLookup
    /\ fault = NoFault
    /\ pc = "export"
    /\ dry_run = FALSE
    /\ users = <<>>
    /\ usernames = <<>>
    /\ pos = 1
    /\ gl_user = 0
    /\ gl_users = InitUsers
    /\ members = {}
    /\ next_id = 21
    /\ log = <<>>
    /\ NoFile

notexport == <<impl, command, dry_run, users, usernames, pos, gl_user,
               gl_users, members, next_id, log, csvfile, loaded,
               all_gl_users, now, buckets, found, fault>>

\* cli.main, export-users: users = service.list_users(), then
\* utils.export_users_to_csv(users, args.filepath) and the line saying how
\* many users were exported.
ExportUsers ==
    /\ pc = "export"
    /\ written' = export_users_to_csv(all_gl_users)
    /\ log' = log \o << Request("list", 0, "", 0, None, 0),
                        Say("exported", Len(all_gl_users), "") >>
    /\ pc' = "exported"
    /\ UNCHANGED <<impl, command, dry_run, users, usernames, pos, gl_user,
                   gl_users, members, next_id, csvfile, loaded,
                   all_gl_users, now, buckets, found, fault, reread>>

\* The exported file read back with csv.reader.
ReadExport ==
    /\ pc = "exported"
    /\ reread' = csv_iternext(splitlines(written))
    /\ pc' = "reread"
    /\ UNCHANGED <<notexport, written>>

NextExport ==
    \/ ExportUsers
    \/ ReadExport

SpecExport == InitExport /\ [][NextExport]_vars

\* int() of a text of digits.
RECURSIVE int(_)
int(text) ==
    IF text = <<>> THEN 0
    ELSE 10 * int(SubSeq(text, 1, Len(text) - 1))
         + (CHOOSE d \in 0..9 : Digits[d + 1] = text[Len(text)])

HeaderLine ==
    << "i","d",",","u","s","e","r","n","a","m","e",",","n","a","m","e",",",
       "e","m","a","i","l",",","s","t","a","t","e","\r","\n" >>

\* C17: the written file begins with the line id,username,name,email,state
\* and, read back, gives that header and then one row per user, in list
\* order, holding the user's id, username, name, email and state.
C17_ExportRoundTrip ==
    /\ pc \in {"exported", "reread"} =>
          /\ Len(written) >= Len(HeaderLine)
          /\ SubSeq(written, 1, Len(HeaderLine)) = HeaderLine
    /\ pc = "reread" =>
          /\ Len(reread) = 1 + Len(all_gl_users)
          /\ reread[1] = header
          /\ \A i \in 1..Len(all_gl_users) :
                LET row == reread[i + 1]
                    user == all_gl_users[i]
                IN /\ Len(row) = 5
                   /\ int(row[1]) = user.id
                   /\ row[2] = user.username
                   /\ row[3] = user.name
                   /\ row[4] = user.email
                   /\ row[5] = user.state

\* C17 witness: a list of two users, one with a comma and one with a line
\* feed in the name, has been written and read back.
C17_Witness ==
    /\ pc = "reread"
    /\ Len(all_gl_users) = 2
    /\ \E k \in 1..Len(all_gl_users[1].name) : all_gl_users[1].name[k] = ","
    /\ \E k \in 1..Len(all_gl_users[2].name) : all_gl_users[2].name[k] = "\n"
    /\ Len(reread) = 3

----------------------------------------------------------------------------
(* Requests issued for a record that passes all checks                     *)

\* The record passes every check when the batch reaches it: its username,
\* e-mail and name are used neither in the directory nor by an earlier
\* record, and if it names a group, the group exists and its access level
\* is one the running tool knows.
PassesAllChecks(i) ==
    /\ ~ FailsPreflight(i)
    /\ ~ BadLevel(i)
    /\ \A j \in 1..(i - 1) :
          /\ users[j].username # users[i].username
          /\ users[j].email # users[i].email
          /\ users[j].name # users[i].name

\* The integer level of an access-level key, whatever its case.
LevelOfKey(key) ==
    LET k == lower(key) IN
    CASE k = guest -> 10
      [] k = reporter -> 20
      [] k = developer -> 30
      [] k \in {maintainer, master} -> 40
      [] k = owner -> 50
      [] OTHER -> 0

\* C18: in a batch that is not a dry run, a record that passes all checks
\* gets exactly one create request, with the password-reset flag set; if it
\* names a group, exactly one membership request follows the create
\* request, for the created user's id, the record's group and the level of
\* the record's key; if it names no group, no membership request is
\* issued; and no membership request of any record precedes its create
\* request.
C18_PassingRecordCreatedThenAdded ==
    (Creating /\ ~ dry_run) =>
        /\ \A i \in RecIdx :
              (PassesAllChecks(i) /\ i < pos) =>
                  /\ Cardinality(RequestsFor("create", i)) = 1
                  /\ \A c \in RequestsFor("create", i) : log[c].level = 1
                  /\ ~ Truthy(users[i].group) =>
                        RequestsFor("member_add", i) = {}
                  /\ Truthy(users[i].group) =>
                        /\ Cardinality(RequestsFor("member_add", i)) = 1
                        /\ \A m \in RequestsFor("member_add", i) :
                              /\ log[m].group = users[i].group
                              /\ log[m].level =
                                    LevelOfKey(users[i].access_level)
                              /\ \E u \in gl_users \ InitUsers :
                                    /\ u.username = users[i].username
                                    /\ u.id = log[m].id
        /\ \A m \in LogIdx :
              IsRequest(m, "member_add") =>
                  \E c \in 1..(m - 1) :
                      IsRequest(c, "create") /\ log[c].rec = log[m].rec

\* C18 witness: the legacy script, not in a dry run, went past a record
\* that fails a check and then past a passing record naming a group, for
\* which a create and a membership request are logged.
C18_Witness ==
    /\ Creating /\ ~ dry_run /\ impl = "legacy" /\ pos = 3
    /\ ~ PassesAllChecks(1)
    /\ PassesAllChecks(2) /\ Truthy(users[2].group)
    /\ RequestsFor("create", 2) # {}
    /\ RequestsFor("member_add", 2) # {}

----------------------------------------------------------------------------
(* The access-level enumeration                                            *)

\* The keys of the access-level enumeration.
LevelKeys == {guest, reporter, developer, maintainer, master, owner}

\* The level the running tool's creation workflow resolves a key to; 0 when
\* it does not know the key: ACCESS_LEVEL[key] in the legacy script,
\* getattr(AccessLevel, key.upper(), None) in the cli command.
resolve(key) ==
    IF impl = "cli" THEN getattr_AccessLevel(upper(key))
    ELSE IF key \in DOMAIN ACCESS_LEVEL THEN ACCESS_LEVEL[key]
    ELSE 0

\* C19: the creation workflow knows every key of {guest, reporter,
\* developer, maintainer, master, owner}; the levels are strictly
\* increasing from guest to owner, master has the level of maintainer, and
\* a record that passes the checks and asks for a group with one of these
\* keys is added to the group at that level.
C19_EveryLevelKeyResolves ==
    Creating =>
        /\ \A k \in LevelKeys : resolve(k) > 0
        /\ resolve(guest) < resolve(reporter)
        /\ resolve(reporter) < resolve(developer)
        /\ resolve(developer) < resolve(maintainer)
        /\ resolve(maintainer) < resolve(owner)
        /\ resolve(master) = resolve(maintainer)
        /\ \A i \in RecIdx :
              (/\ ~ dry_run /\ i < pos
               /\ ~ FailsPreflight(i)
               /\ Truthy(users[i].group)
               /\ users[i].access_level \in LevelKeys
               /\ RequestsFor("create", i) # {}) =>
                  \E m \in RequestsFor("member_add", i) :
                      log[m].level = LevelOfKey(users[i].access_level)

----------------------------------------------------------------------------
(* GitLabService.get_user_by_username                                      *)

\* Users the directory may hold: with and without an email attribute, two
\* of them answering to the same username.
ListedUsers ==
    { [id |-> 11, username |-> "bob", email |-> "bob@example.com",
       name |-> "Bob", state |-> "active"],
      [id |-> 13, username |-> "bob", name |-> "Bobby",
       state |-> "blocked"],
      [id |-> 12, username |-> "alice", email |-> "alice@example.com",
       name |-> "Alice", state |-> "active"],
      [id |-> 14, username |-> "alice", name |-> "Alice",
       state |-> "active"] }

\* gl.users.list(username=...) on a directory given as the sequence the
\* service lists its users in.
gl_users_list(directory, username) ==
    LET matches(u) == u.username = username IN SelectSeq(directory, matches)

\* getattr taking None for a missing attribute.
getattr_without_default(u, name, default) ==
    IF name \in DOMAIN u THEN u[name] ELSE None

\* getattr(u, name, default)
getattr(u, name, default) ==
    IF name \in DOMAIN u THEN u[name] ELSE default

\* The message of the ValueError: an f-string around the username.
not_found_message(username) ==
    << "User with username '", username, "' not found." >>

\* services.GitLabService.get_user_by_username
GitLabService_get_user_by_username(directory, username) ==
    LET listed == gl_users_list(directory, username) IN
    IF listed = <<>>
    THEN [raised |-> "ValueError", message |-> not_found_message(username),
          user |-> NoUser]
    ELSE LET u == listed[1] IN
         [raised |-> "", message |-> <<>>,
          user |-> [id |-> u.id, username |-> u.username,
                    email |-> getattr(u, "email", ""), name |-> u.name,
                    state |-> u.state]]

\* The state before a lookup: a directory and the username asked for.
InitLookup ==
    /\ impl = "cli"
    /\ command = "lookup"
    /\ all_gl_users \in SeqsUpTo(ListedUsers, MaxListed)
    /\ usernames \in [1..1 -> DeleteNames]
    /\ now = <<0, 0>>
    /\ buckets = NoBuckets
    /\ pc = "lookup"
    /\ dry_run = FALSE
    /\ users = <<>>
    /\ pos = 1
    /\ gl_user = 0
    /\ gl_users = InitUsers
    /\ members = {}
    /\ next_id = 21
    /\ log = <<>>
    /\ NoFile
    /\ NoExport
    /\ NoLookup
    /\ fault = NoFault

notlookup == <<impl, command, dry_run, users, usernames, pos, gl_user,
               gl_users, members, next_id, csvfile, loaded, all_gl_users,
               now, buckets, written, reread, fault>>

\* One call of get_user_by_username: the listing request, then the user
\* returned or the error raised.
GetUserByUsername ==
    /\ pc = "lookup"
    /\ log' = Append(log, Request("list", 0, usernames[1], 0, None, 0))
    /\ found' = GitLabService_get_user_by_username(all_gl_users, usernames[1])
    /\ pc' = IF found'.raised = "" THEN "returned" ELSE "raised"
    /\ UNCHANGED notlookup

NextLookup == GetUserByUsername

SpecLookup == InitLookup /\ [][NextLookup]_vars

\* Positions of the directory holding a user of the username asked for.
Answering == {k \in 1..Len(all_gl_users) :
                 all_gl_users[k].username = usernames[1]}

\* C20: after the call, exactly one request has been issued, the listing
\* filtered on the username. If the directory has users of that username,
\* the call returns the first of them, with id, username, name and state
\* as listed and the email as listed, or "" for a user that has no email
\* attribute. If it has none, the call raises ValueError with a message
\* holding the username.
C20_FirstListedOrValueError ==
    (command = "lookup" /\ pc # "lookup") =>
        /\ Len(log) = 1
        /\ IsRequest(1, "list") /\ log[1].user = usernames[1]
        /\ Answering = {} =>
              /\ pc = "raised"
              /\ found.raised = "ValueError"
              /\ found.message = << "User with username '", usernames[1],
                                    "' not found." >>
              /\ found.user = NoUser
        /\ Answering # {} =>
              LET first == CHOOSE k \in Answering :
                               \A j \in Answering : k <= j
                  u == all_gl_users[first]
              IN /\ pc = "returned"
                 /\ found.raised = ""
                 /\ found.user.id = u.id
                 /\ found.user.username = u.username
                 /\ found.user.name = u.name
                 /\ found.user.state = u.state
                 /\ "email" \in DOMAIN u => found.user.email = u.email
                 /\ "email" \notin DOMAIN u => found.user.email = ""

\* C20 witness: the directory listed two users of the username, the first
\* without an email attribute, and the call returned that one with the
\* email "".
C20_Witness ==
    /\ command = "lookup" /\ pc = "returned"
    /\ Cardinality(Answering) = 2
    /\ "email" \notin DOMAIN all_gl_users[1]
    /\ "email" \in DOMAIN all_gl_users[2]
    /\ found.user.id = all_gl_users[1].id
    /\ found.user.email = ""

----------------------------------------------------------------------------
(* Remote calls that fail                                                  *)

\* The call sites of a creation: users.list of NewUser.__init__,
\* groups.list and groups.get of NewUser._check, users.create, the save of
\* NewUser._create, and the groups.get and members.create of the
\* membership step.
CreateSites == {"users_list", "groups_list", "check_groups_get",
                "users_create", "users_save", "groups_get",
                "members_create"}

\* The call sites of a deletion by the cli command.
DeleteSites == {"users_list", "users_delete"}

\* What a failing call raises: an error of the remote service
\* (gitlab.GitlabError), or a transport error, which is no GitlabError.
Errors == {"GitlabError", "ConnectionError"}

\* The failures of an invocation working on count elements: none, or one call
\* site failing for one element; the group lookup of the membership step
\* may also answer "Group Not Found".
Faults(sites, count) ==
    {NoFault}
    \cup [site : sites, rec : 1..count, error : Errors]
    \cup [site : sites \cap {"groups_get"}, rec : 1..count,
          error : {"GroupNotFound"}]

\* Creation rows of the invocations with a failing call.
FaultUserDicts ==
    {d \in UserDicts :
        /\ d.username \in {"carol", "dave", "bob"}
        /\ <<d.group, d.access_level>> \in
              { <<None, NoneText>>, <<"devs", developer>>,
                <<"devs", bogus>>, <<"ghost", developer>> }}

InitFaults ==
    /\ impl \in {"cli", "legacy"}
    /\ command \in {"create", "delete_from", "delete"}
    /\ impl = "legacy" => command = "create"
    /\ dry_run \in BOOLEAN
    /\ command = "create" => ~ dry_run
    /\ users \in SeqsUpTo(FaultUserDicts, MaxRecords)
    /\ usernames \in SeqsUpTo(DeleteNames, MaxRecords)
    /\ command = "create" => usernames = <<>>
    /\ command # "create" => users = <<>>
    /\ command = "delete" => Len(usernames) = 1
    /\ fault \in IF command = "create"
                 THEN Faults(CreateSites, Len(users))
                 ELSE Faults(DeleteSites, Len(usernames))
    /\ (impl = "cli" /\ command = "create") =>
          fault.site \in {"none", "users_create", "groups_get",
                          "members_create"}
    /\ pos = 1
    /\ pc = "run"
    /\ gl_user = 0
    /\ gl_users = InitUsers
    /\ members = {}
    /\ next_id = 21
    /\ log = <<>>
    /\ NoFile
    /\ NoReport
    /\ NoExport
    /\ NoLookup

NextFaults ==
    \/ CliCreateFromCsv
    \/ NewUser_save
    \/ CliDeleteFromCsv
    \/ CliDeleteUser
    \/ MainReturn

SpecFaults == InitFaults /\ [][NextFaults]_vars

IsRaised(i, site) == log[i].kind = "raise" /\ log[i].op = site

\* The call at this site raised while record i was processed.
RaisedAt(site, i) ==
    \E k \in LogIdx : IsRaised(k, site) /\ log[k].rec = i

\* The membership step of record i raised.
AddStepRaised(i) == RaisedAt("groups_get", i) \/ RaisedAt("members_create", i)

\* The invocation ended while it was processing record i.
EndedAt(i) == pos = i /\ pc \in {"raised", "exit"}

\* C21 (as claimed): when the membership step of a created user raises an
\* error of the remote service, the record gets a warning and the batch
\* goes on to the next record; when it raises an error of another
\* category, the invocation ends at that record.
C21_AddErrorWarnedUnlessUnrecognized ==
    Creating =>
        \A i \in RecIdx :
            AddStepRaised(i) =>
                IF fault.error \in {"GitlabError", "GroupNotFound"}
                THEN /\ Said("could_not_add_to_group", i)
                     /\ ~ EndedAt(i)
                     /\ pos > i
                ELSE EndedAt(i) /\ pc = "raised"

\* C21 (amended): the cli command catches every error the membership step
\* raises, whatever its category: the record gets the warning "could not
\* add to group" and the batch goes on to the next record. The legacy
\* script catches none: the invocation ends at that record, by sys.exit
\* when the group lookup answers "Group Not Found", by the exception
\* otherwise, and the record gets no warning.
C21_AddErrorByTool ==
    Creating =>
        \A i \in RecIdx :
            AddStepRaised(i) =>
                /\ impl = "cli" =>
                      /\ Said("could_not_add_to_group", i)
                      /\ ~ EndedAt(i)
                      /\ pos > i
                /\ impl = "legacy" =>
                      /\ EndedAt(i)
                      /\ pc = "exit" <=> fault.error = "GroupNotFound"
                      /\ ~ Said("could_not_add_to_group", i)
                      /\ IsRaised(Len(log), fault.site)
                         \/ IsSay(Len(log), "group_not_found")

\* C21 witness: the cli command got a transport error from members.create
\* for the first record, warned, and created the second record.
C21_Witness ==
    /\ impl = "cli" /\ Creating
    /\ fault.error = "ConnectionError"
    /\ RaisedAt("members_create", 1)
    /\ Said("could_not_add_to_group", 1)
    /\ RequestsFor("create", 2) # {}
    /\ Said("created", 2)

----------------------------------------------------------------------------
(* Answers the confirmation prompt does not know                           *)

\* The answer is neither a yes, nor a no, nor empty for the prompt of the
\* running tool.
Malformed(line) ==
    IF impl = "cli"
    THEN lower(strip(line)) \notin {y, yes, n, no, <<>>}
    ELSE lower(line) \notin {y, ye, yes, n, no, <<>>}

\* The log entry is the decision taken for record rec: the delete request
\* or the line saying the user is not deleted.
IsDecision(k, rec) ==
    /\ log[k].rec = rec
    /\ \/ IsRequest(k, "delete")
       \/ IsSay(k, "skipped")
       \/ IsSay(k, "not_deleted")
       \/ IsSay(k, "not_deleted_aborted")

InputsFor(rec) == {k \in LogIdx : IsInput(k) /\ log[k].rec = rec}

\* C22 (as claimed): an answer that is neither yes, no nor empty is
\* followed by no decision but by the prompt's complaint, and the prompt
\* stays open until an answer that is one of them arrives, which is
\* followed by the decision.
C22_MalformedAnswerAsksAgain ==
    \A i \in LogIdx :
        IsInput(i) =>
            IF Malformed(log[i].line)
            THEN /\ i < Len(log) /\ IsSay(i + 1, "please_respond")
                 /\ \A k \in LogIdx :
                       (IsDecision(k, log[i].rec) /\ k > i) =>
                           \E j \in InputsFor(log[i].rec) :
                               i < j /\ j < k /\ ~ Malformed(log[j].line)
            ELSE i < Len(log) /\ IsDecision(i + 1, log[i].rec)

\* C22 (amended): the prompt of the legacy scripts behaves as claimed: a
\* malformed answer is followed by the complaint and the prompt stays open
\* on the same user, a well-formed one is followed at once by the decision,
\* which closes the prompt, and no decision is in the log while the prompt
\* is open. The prompt of the cli command is read once per user: a
\* malformed answer is followed at once by the decision to skip the user.
C22_MalformedAnswerByTool ==
    /\ \A i \in LogIdx :
          IsInput(i) =>
              LET line == log[i].line
                  rec == log[i].rec
              IN /\ i < Len(log)
                 /\ impl = "cli" =>
                       /\ InputsFor(rec) = {i}
                       /\ IsDecision(i + 1, rec)
                       /\ Malformed(line) => IsSay(i + 1, "skipped")
                 /\ (impl # "cli" /\ Malformed(line)) =>
                       /\ IsSay(i + 1, "please_respond")
                       /\ i + 1 = Len(log) => (pc = "query" /\ pos = rec)
                       /\ i + 1 < Len(log) =>
                             (IsInput(i + 2) /\ log[i + 2].rec = rec)
                 /\ (impl # "cli" /\ ~ Malformed(line)) =>
                       /\ IsDecision(i + 1, rec)
                       /\ \A j \in InputsFor(rec) : j <= i
                       /\ ~ (pc = "query" /\ pos = rec)
    /\ pc = "query" =>
          \A k \in LogIdx : ~ IsDecision(k, pos)

\* C22 witness: the legacy prompt got two malformed answers and then a
\* yes, and the user was deleted.
C22_Witness ==
    /\ impl = "legacy"
    /\ \E i \in LogIdx :
          /\ IsInput(i) /\ Malformed(log[i].line)
          /\ i + 5 <= Len(log)
          /\ IsSay(i + 1, "please_respond")
          /\ IsInput(i + 2) /\ Malformed(log[i + 2].line)
          /\ IsInput(i + 4) /\ lower(log[i + 4].line) = yes
          /\ IsRequest(i + 5, "delete")

----------------------------------------------------------------------------
(* Transport failures                                                      *)

\* The call site lies in the try block of the cli command's membership
\* step.
InCliTryBlock(site) ==
    impl = "cli" /\ Creating /\ site \in {"groups_get", "members_create"}

\* C23 (as claimed): a transport failure of a remote call is the last
\* thing the invocation does: nothing is logged after it, the invocation
\* has ended at the element it was working on, and nothing was done for a
\* later element.
C23_TransportFailureEndsInvocation ==
    \A k \in LogIdx :
        (log[k].kind = "raise" /\ log[k].error = "ConnectionError") =>
            /\ k = Len(log)
            /\ EndedAt(log[k].rec)
            /\ \A j \in LogIdx : log[j].rec <= log[k].rec

\* C23 (amended): no request is issued for an element after a call made
\* for it has failed. A transport failure outside the membership step of
\* the cli command ends the invocation at once, at the element it was
\* working on. A transport failure of the group lookup or of the
\* membership request of the cli command is caught: the warning follows
\* and the batch goes on with the next record.
C23_TransportFailureByCallSite ==
    \A k \in LogIdx :
        log[k].kind = "raise" =>
            /\ \A j \in LogIdx :
                  (j > k /\ log[j].kind = "request") =>
                      log[j].rec # log[k].rec
            /\ (log[k].error = "ConnectionError"
                  /\ ~ InCliTryBlock(log[k].op)) =>
                  /\ k = Len(log)
                  /\ EndedAt(log[k].rec) /\ pc = "raised"
                  /\ \A j \in LogIdx : log[j].rec <= log[k].rec
            /\ (log[k].error = "ConnectionError"
                  /\ InCliTryBlock(log[k].op)) =>
                  /\ k < Len(log)
                  /\ IsSay(k + 1, "could_not_add_to_group")
                  /\ log[k + 1].rec = log[k].rec
                  /\ pos > log[k].rec

\* C23 witness: the creation request of the first of two records met a
\* transport failure, and the invocation ended there.
C23_Witness ==
    /\ Creating /\ Len(users) = 2
    /\ fault.error = "ConnectionError"
    /\ RaisedAt("users_create", 1)
    /\ pc = "raised" /\ pos = 1

----------------------------------------------------------------------------
(* A username repeated in one file                                         *)

\* Record i repeats the username of an earlier record of the file that
\* was created.
RepeatsCreated(i) ==
    \E j \in 1..(i - 1) :
        /\ users[j].username = users[i].username
        /\ Said("created", j)

\* C24: in a creation batch that is not a dry run, no two create requests
\* carry the same username, and a record repeating the username of an
\* earlier created record gets no create request and is reported as not
\* created once the batch has gone past it.
C24_NoTwoCreatesOfOneUsername ==
    (Creating /\ ~ dry_run) =>
        /\ \A c, d \in LogIdx :
              (IsRequest(c, "create") /\ IsRequest(d, "create")
                 /\ log[c].user = log[d].user) => c = d
        /\ \A i \in RecIdx :
              RepeatsCreated(i) =>
                  /\ RequestsFor("create", i) = {}
                  /\ i < pos => Said("will_not_be_created", i)

----------------------------------------------------------------------------
(* create-from-csv on the rows its loader returns                          *)

\* A column of a loaded row as the value the creation loop compares: the
\* same Python str, or None.
as_string(text) ==
    IF text = NoneText THEN None
    ELSE IF text = <<>> THEN ""
    ELSE IF Len(text) = 1 THEN text[1]
    ELSE IF text = <<"#", "c">> THEN "#c"
    ELSE "?"

\* A loaded row as the creation loop reads it; the access level stays a
\* text, the loop upper-cases it.
as_userdict(row) ==
    [k \in DOMAIN row |->
        IF k = "access_level" THEN row[k] ELSE as_string(row[k])]

InitCreateFromCsv ==
    /\ impl = "cli"
    /\ command = "create"
    /\ dry_run \in BOOLEAN
    /\ csvfile \in SeqsUpTo(Lines, MaxLines)
    /\ loaded = NotLoaded
    /\ users = <<>>
    /\ usernames = <<>>
    /\ pos = 1
    /\ pc = "load"
    /\ gl_user = 0
    /\ gl_users = InitUsers
    /\ members = {}
    /\ next_id = 21
    /\ log = <<>>
    /\ NoReport
    /\ NoExport
    /\ NoLookup
    /\ fault = NoFault

\* cli.main, create-from-csv: users = utils.get_users_from_csv(args.csvfile)
CliLoadUsers ==
    /\ impl = "cli" /\ command = "create" /\ pc = "load"
    /\ users' = [i \in 1..Len(get_users_from_csv(csvfile)) |->
                    as_userdict(get_users_from_csv(csvfile)[i])]
    /\ pc' = "run"
    /\ UNCHANGED <<impl, command, dry_run, usernames, fault, local, pos,
                   gl_user, gl_users, members, next_id, log>>

NextCreateFromCsv ==
    \/ CliLoadUsers
    \/ CliCreateFromCsv
    \/ MainReturn

SpecCreateFromCsv == InitCreateFromCsv /\ [][NextCreateFromCsv]_vars

\* C25: create-from-csv issues a create request only for a row whose
\* username, email and name are all present, and stops with ValueError,
\* before any request for the row, at a row where one of them is missing.
C25_NoCreateWithoutRequiredField ==
    (impl = "cli" /\ Creating /\ ~ dry_run /\ pc # "load") =>
        \A i \in RecIdx :
            LET missing == \E k \in {"username", "email", "name"} :
                               k \notin DOMAIN users[i] \/ ~ Truthy(users[i][k])
            IN /\ RequestsFor("create", i) # {} => ~ missing
               /\ (missing /\ pos >= i /\ pc # "run") =>
                     (pc = "raised" /\ pos = i)

----------------------------------------------------------------------------
(* How the activity buckets relate                                         *)

\* The buckets b made of the listing: stale and recently active are
\* disjoint and together make the already-signed-in bucket, never-signed-in
\* and already-signed-in are disjoint, and a user who is not active is in
\* none of them.
BucketsPartition(b, listing) ==
    \A i \in 1..Len(listing) :
        LET u == listing[i] IN
        /\ ~ (InBucket(b.old_sign_in, u) /\ InBucket(b.active, u))
        /\ InBucket(b.already_sign_in, u) <=>
              (InBucket(b.old_sign_in, u) \/ InBucket(b.active, u))
        /\ ~ (InBucket(b.never_sign_in, u) /\ InBucket(b.already_sign_in, u))
        /\ u.state # "active" =>
              /\ ~ InBucket(b.old_sign_in, u)
              /\ ~ InBucket(b.active, u)
              /\ ~ InBucket(b.already_sign_in, u)
              /\ ~ InBucket(b.never_sign_in, u)

\* C26: for every listing the classification returns its four buckets, of
\* which stale and recently active are disjoint and together make the
\* already-signed-in bucket, never-signed-in and already-signed-in are
\* disjoint, and which hold no user whose state is not "active".
C26_BucketsPartitionActiveUsers ==
    pc # "report" =>
        /\ buckets.raised = ""
        /\ BucketsPartition(buckets, all_gl_users)

----------------------------------------------------------------------------
(* Keys of a parsed creation row                                           *)

\* The seven field names of the schema.
SchemaKeys == {fieldnames[k] : k \in 1..Len(fieldnames)}

\* C27: the creation loader of the cli command and of the legacy script
\* returns one record per line that is no comment, in file order (the
\* record's username is the line's first column, None for a blank line),
\* and the keys of every record are exactly the seven field names,
\* whatever the number of columns of its line.
C27_SevenKeysPerRecord ==
    (LoadedUsers /\ impl # "old") =>
        /\ loaded.raised = ""
        /\ Len(loaded.newusers) = Len(Kept)
        /\ \A i \in 1..Len(Kept) :
              /\ DOMAIN loaded.newusers[i] = SchemaKeys
              /\ loaded.newusers[i]["username"] =
                    (IF Kept[i] = <<>> THEN NoneText
                     ELSE strip(FirstColumn(Kept[i])))

----------------------------------------------------------------------------
(* A membership step that fails after the creation                         *)

\* Record i was created and its membership step failed: the group lookup
\* or the membership request raised, the group does not exist, or the
\* access level is not known.
MembershipFailed(i) ==
    /\ Said("created", i)
    /\ \/ AddStepRaised(i)
       \/ Said("could_not_add_to_group", i)
       \/ Said("unknown_access_level", i)
       \/ Said("group_not_found", i)

\* C28: when the membership step of a created user fails, the user stays
\* in the directory, without any membership, and no delete request and no
\* further save or create request is issued for that record after the
\* creation was reported.
C28_FailedMembershipKeepsUser ==
    Creating =>
        \A i \in RecIdx :
            MembershipFailed(i) =>
                /\ \E u \in gl_users \ InitUsers :
                      /\ u.username = users[i].username
                      /\ \A m \in members : m.user_id # u.id
                /\ RequestsFor("delete", i) = {}
                /\ \A k, j \in LogIdx :
                      (IsSay(k, "created") /\ log[k].rec = i /\ j > k
                         /\ log[j].rec = i /\ log[j].kind = "request") =>
                          log[j].op = "member_add"

\* C28 witness: the legacy script created the first record, its
\* membership request raised and ended the invocation, and the user is in
\* the directory.
C28_Witness ==
    /\ impl = "legacy" /\ Creating
    /\ RaisedAt("members_create", 1)
    /\ MembershipFailed(1)
    /\ pc = "raised"
    /\ \E u \in gl_users : u.username = users[1].username

----------------------------------------------------------------------------
(* The commands that only read                                             *)

\* The users of a directory in the order the service lists them, by id.
listed(directory) ==
    CHOOSE s \in [1..Cardinality(directory) -> directory] :
        \A i, j \in 1..Cardinality(directory) : i < j => s[i].id < s[j].id

\* user.keys.list(): the SSH keys the directory holds for a user; the
\* users with an odd id have one.
keys_list(id) == IF id % 2 = 1 THEN << "ssh-rsa" >> ELSE <<>>

\* A key export that deletes the user it reads.
GitLabService_export_ssh_keys_deleting(id, username) ==
    << Request("delete", 1, username, id, None, 0) >>

\* services.GitLabService.export_ssh_keys: the requests it issues,
\* gl.users.get(user.id) and user_obj.keys.list().
GitLabService_export_ssh_keys(id, username) ==
    << Request("get", 1, username, id, None, 0),
       Request("keys_list", 1, username, id, None, 0) >>

\* The activity options of the legacy script: none, --unused, --sign-in,
\* --active.
Activities == {"", "unused", "sign_in", "active"}

InitReadOnly ==
    /\ \/ /\ impl = "cli"
          /\ command \in {"list_users", "list_groups"}
          /\ pc = "run"
          /\ usernames = <<>>
          /\ all_gl_users = <<>>
          /\ now = <<0, 0>>
       \/ /\ impl = "cli" /\ command = "export"
          /\ pc = "export"
          /\ usernames = <<>>
          /\ all_gl_users \in SeqsUpTo(ExportedUsers, MaxListed)
          /\ now = <<0, 0>>
       \/ /\ impl = "cli" /\ command = "export_ssh_keys"
          /\ pc = "run"
          /\ usernames \in [1..1 -> DeleteNames]
          /\ all_gl_users = <<>>
          /\ now = <<0, 0>>
       \/ /\ impl = "legacy" /\ command = "output"
          /\ pc = "run"
          /\ usernames = <<>>
          /\ all_gl_users \in Listings
          /\ now \in Nows
    /\ buckets = NoBuckets
    /\ dry_run = FALSE
    /\ users = <<>>
    /\ pos = 1
    /\ gl_user = 0
    /\ gl_users = InitUsers
    /\ members = {}
    /\ next_id = 21
    /\ log = <<>>
    /\ NoFile
    /\ NoExport
    /\ NoLookup
    /\ fault = NoFault

notreadonly == <<impl, command, dry_run, users, usernames, pos, gl_user,
                 gl_users, members, next_id, csvfile, loaded, all_gl_users,
                 now, written, reread, found, fault>>

\* cli.main, list-users.
CliListUsers ==
    /\ impl = "cli" /\ command = "list_users" /\ pc = "run"
    /\ log' = << Request("list", 0, "", 0, None, 0) >> \o
              [i \in 1..Cardinality(gl_users) |->
                  Say("user_line", i, listed(gl_users)[i].username)]
    /\ pc' = "done"
    /\ UNCHANGED <<notreadonly, buckets>>

\* cli.main, list-groups.
CliListGroups ==
    /\ impl = "cli" /\ command = "list_groups" /\ pc = "run"
    /\ log' = << Request("groups_list", 0, "", 0, None, 0) >> \o
              [i \in 1..Cardinality(InitGroups) |-> Say("group_line", i, "")]
    /\ pc' = "done"
    /\ UNCHANGED <<notreadonly, buckets>>

\* cli.main, export-ssh-keys.
CliExportSshKeys ==
    /\ impl = "cli" /\ command = "export_ssh_keys" /\ pc = "run"
    /\ LET username == usernames[1]
           user == get_user_by_username(username)
           looked == << Request("list", 1, username, 0, None, 0) >>
       IN IF user.raised = "ValueError"
          THEN log' = looked \o << Say("not_found", 1, username) >>
          ELSE log' = looked
                      \o GitLabService_export_ssh_keys(user.id, username)
                      \o << Say("ssh_keys_for", 1, username) >>
                      \o [i \in 1..Len(keys_list(user.id)) |->
                             Say("key_line", 1, username)]
    /\ pc' = "done"
    /\ UNCHANGED <<notreadonly, buckets>>

\* The lines a listing of the legacy script prints for a bucket or for all
\* users, one per user.
user_info_lines(list) == [i \in 1..Len(list) |-> Say("user_info", list[i].id, "")]

\* GLUsers.print_users: with --export-keys one keys.list() request per
\* user, the key of a user who has one written to a local file, and the
\* tally; without it one line per user.
print_users(list, export_keys) ==
    IF ~ export_keys THEN user_info_lines(list)
    ELSE LET haskey(u) == keys_list(u.id) # <<>>
             nokey(u) == keys_list(u.id) = <<>>
             each(u) == << Request("keys_list", u.id, "", u.id, None, 0) >>
                        \o (IF haskey(u)
                            THEN << Say("user_info", u.id, ""),
                                    Say("key_file_written", u.id, "") >>
                            ELSE <<>>)
             all[i \in 0..Len(list)] ==
                 IF i = 0 THEN <<>> ELSE all[i - 1] \o each(list[i])
         IN all[Len(list)] \o << Say("tally", 0, "") >>
            \o user_info_lines(SelectSeq(list, nokey))

\* Legacy main, the listing branch: GLUsers(...) and then output() or
\* out_csv().
GLUsers_output ==
    /\ impl = "legacy" /\ command = "output" /\ pc = "run"
    /\ \E activity \in Activities, export_keys \in BOOLEAN,
          csv_out \in BOOLEAN :
         LET init == << Request("list", 0, "", 0, None, 0) >>
             b == classify("legacy", TRUE, all_gl_users, now)
             chosen == CASE activity = "unused" ->
                               b.old_sign_in \o b.never_sign_in
                         [] activity = "sign_in" -> b.already_sign_in
                         [] activity = "active" -> b.active
                         [] OTHER -> all_gl_users
             titles == IF csv_out THEN << Say("csv_header", 0, "") >>
                       ELSE <<>>
         IN IF activity # "" /\ b.raised # ""
            THEN \* _getactivity raises
                 /\ buckets' = b
                 /\ log' = init \o titles
                 /\ pc' = "raised"
            ELSE IF csv_out /\ chosen # <<>>
            THEN \* csv_user_line: self._format_date is no attribute
                 /\ buckets' = IF activity # "" THEN b ELSE buckets
                 /\ log' = init \o titles
                 /\ pc' = "raised"
            ELSE /\ buckets' = IF activity # "" THEN b ELSE buckets
                 /\ log' = init \o titles \o
                       (IF csv_out THEN <<>>
                        ELSE IF activity # ""
                        THEN << Say("bucket_title", 0, activity) >>
                             \o user_info_lines(chosen)
                        ELSE print_users(chosen, export_keys))
                 /\ pc' = "done"
    /\ UNCHANGED notreadonly

NextReadOnly ==
    \/ CliListUsers
    \/ CliListGroups
    \/ ExportUsers
    \/ CliExportSshKeys
    \/ GLUsers_output

SpecReadOnly == InitReadOnly /\ [][NextReadOnly]_vars

\* C29: the commands that only read issue no create, delete, save or
\* membership request, and leave the users and the memberships of the
\* directory as they were, whether the username they are given exists or
\* not.
C29_ReadOnlyCommandsChangeNothing ==
    command \in {"list_users", "list_groups", "export", "export_ssh_keys",
                 "output"} =>
        /\ gl_users = InitUsers
        /\ members = {}
        /\ \A i \in LogIdx :
              log[i].kind = "request" =>
                  log[i].op \notin {"create", "delete", "save", "member_add"}

\* C29 witness: export-ssh-keys has read the keys of an existing user.
C29_Witness ==
    /\ command = "export_ssh_keys" /\ pc = "done"
    /\ \E u \in gl_users : u.username = usernames[1]
    /\ \E i \in LogIdx : IsRequest(i, "keys_list")
    /\ \E i \in LogIdx : IsSay(i, "key_line")

====
